---- MODULE Spec2Model ----
(***************************************************************************)
(* Health-metrics extractor front end: the upload pipeline of App.jsx      *)
(* (batch parse of the collected stream), its line-delimited streaming     *)
(* predecessor (src/unnamed/part_000) and its brace-matched streaming      *)
(* predecessor (the App component carried in src/start.sh).                *)
(*                                                                         *)
(* Text is a sequence of tokens.  Braces, brackets, commas, newlines and   *)
(* spaces are single characters; a body token stands for a run of          *)
(* "key":scalar members that contains none of those characters.            *)
(***************************************************************************)
EXTENDS Integers, Sequences, FiniteSets, TLC

VARIABLES
    fileList,       \* names of the files handed to handleUpload
    idx,            \* index in fileList of the file processFile works on (0: none)
    pc,             \* the await the handler is suspended at
    text,           \* what /extract streams for the current file (input record)
    rest,           \* the part of text the reader has not delivered yet
    buffer,         \* fullOutput (App.jsx) / buffer (streaming variants)
    extractedCount, \* processFile's extractedCount
    reportDate,     \* processFile's reportDate
    extracted,      \* extractedObjects (App.jsx) / items emitted so far (streaming)
    scanned,        \* App.jsx: the object scan of line 109 ran for this file
    sent,           \* POSTs to /save issued so far, in order
    inflight,       \* per file: save requests issued and not yet settled
    ledger,         \* POSTs to /record_file_processing issued so far
    recorded,       \* the ledger entries the backend has written
    fileStatuses,   \* App state fileStatuses
    isLoading,      \* App state isLoading
    view,           \* App state view
    error,          \* App state error
    autoSave,       \* start.sh App state autoSave
    received,       \* history: reader.read() reported done for the current file
    runs,           \* the calls of handleUpload that reached processFile, in order
    uploads,        \* history: the file lists FileUpload passed to onUpload
    val,            \* validator harness: the value under test
    verdict,        \* validator harness: "none", "accept" or "reject"
    rangeStr,       \* parseReferenceRange: its argument
    refBounds,      \* parseReferenceRange: what it returned (NotRun before the call)
    metrics,        \* TrendView state metrics: the records /metrics returned
    loading,        \* TrendView state loading
    selectedTest,   \* TrendView state selectedTest
    availableTests, \* TrendView state availableTests
    testCounts,     \* TrendView state testCounts: per test name, its count
    chartData,      \* TrendView: chartData as of the last render
    lenientDates,   \* whether the browser's Date parses the forms ECMAScript
                    \* leaves to the implementation
    store,          \* the records the backend store holds, in insertion order
    alerts,         \* Dashboard state alerts
    dashLoading,    \* Dashboard state loading
    dashError,      \* Dashboard state error (TRUE: a message is set)
    expandedCategories, \* Dashboard state expandedCategories
    now,            \* the day new Date() gives while the dashboard is shown
    normRec,        \* Normalizer: the record being normalized
    normPrev,       \* Normalizer: the record before the last pass
    normCount       \* Normalizer: passes applied to normRec

vars == <<fileList, idx, pc, text, rest, buffer, extractedCount, reportDate,
          extracted, scanned, sent, inflight, ledger, recorded, fileStatuses, isLoading,
          view, error, autoSave, received, runs, uploads, val, verdict,
          rangeStr, refBounds, metrics, loading, selectedTest, availableTests, testCounts, chartData,
          lenientDates, store, alerts, dashLoading, dashError, expandedCategories, now,
          normRec, normPrev, normCount>>

pipeVars == <<fileList, idx, pc, text, rest, buffer, extractedCount, reportDate,
              extracted, scanned, sent, inflight, ledger, recorded, fileStatuses,
              isLoading, view, error, autoSave, received>>

\* state of the components that are not part of the upload pipeline
trendVars == <<metrics, loading, selectedTest, availableTests, testCounts, chartData,
               lenientDates>>

dashVars == <<store, alerts, dashLoading, dashError, expandedCategories, now>>

normVars == <<normRec, normPrev, normCount>>

analyzerVars == <<rangeStr, refBounds, trendVars, dashVars, normVars>>

\* concurrent calls of handleUpload, which the one-call pipeline leaves out
uploadVars == <<runs, uploads>>

harnessVars == <<val, verdict, analyzerVars, uploadVars>>

(***************************************************************************)
(* Bounds                                                                  *)
(***************************************************************************)
MaxValLen == 3      \* longest free-form value string of the validator harness
MaxFrags == 2       \* fragments in one streamed text
MaxFiles == 2       \* files in one upload batch
MaxChunk == 3       \* tokens one reader.read() delivers, unless it delivers all
MaxRangeLen == 3    \* longest free-form reference-range string
MaxMetrics == 3     \* records the store returns to the trend view
MaxHistory == 2     \* records in the store when the dashboard asks for alerts
MaxStore == 3       \* records saved to the store in one run
MaxAlerts == 2      \* alerts the backend answers the dashboard with

(***************************************************************************)
(* Generic sequence helpers                                                *)
(***************************************************************************)
RECURSIVE SeqsUpTo(_, _)
SeqsUpTo(S, n) ==
    IF n = 0 THEN {<<>>}
    ELSE LET shorter == SeqsUpTo(S, n - 1)
         IN  shorter \cup {Append(s, x) : s \in {t \in shorter : Len(t) = n - 1}, x \in S}

Take(s, n) == SubSeq(s, 1, n)
Drop(s, n) == SubSeq(s, n + 1, Len(s))

RECURSIVE Flatten(_)
Flatten(ss) == IF ss = <<>> THEN <<>> ELSE Head(ss) \o Flatten(Tail(ss))

(***************************************************************************)
(* Values of a record's "value" member and the value check                 *)
(* (App.jsx lines 132-149).  A value is its JavaScript type and the        *)
(* characters of String(value).                                            *)
(***************************************************************************)
Lowers == <<"a","b","c","d","e","f","g","h","i","j","k","l","m",
            "n","o","p","q","r","s","t","u","v","w","x","y","z">>
Uppers == <<"A","B","C","D","E","F","G","H","I","J","K","L","M",
            "N","O","P","Q","R","S","T","U","V","W","X","Y","Z">>

ToLowerChar(c) ==
    IF \E i \in 1..Len(Uppers) : Uppers[i] = c
    THEN Lowers[CHOOSE i \in 1..Len(Uppers) : Uppers[i] = c]
    ELSE c

ToUpperChar(c) ==
    IF \E i \in 1..Len(Lowers) : Lowers[i] = c
    THEN Uppers[CHOOSE i \in 1..Len(Lowers) : Lowers[i] = c]
    ELSE c

toLowerCase(s) == [i \in 1..Len(s) |-> ToLowerChar(s[i])]
toUpperCase(s) == [i \in 1..Len(s) |-> ToUpperChar(s[i])]
Capitalize(s) == [i \in 1..Len(s) |-> IF i = 1 THEN ToUpperChar(s[i]) ELSE s[i]]

Digits == {"0","1","2","3","4","5","6","7","8","9"}
WhiteSpace == {" ", "\n"}

Undefined == [k |-> "undefined", s |-> <<"u","n","d","e","f","i","n","e","d">>]
Null == [k |-> "null", s |-> <<"n","u","l","l">>]
True == [k |-> "boolean", s |-> <<"t","r","u","e">>]
Num(s) == [k |-> "number", s |-> s]
Str(s) == [k |-> "string", s |-> s]

\* allowedNonNumeric, App.jsx line 144
allowedNonNumeric ==
    { <<"n","e","g","a","t","i","v","e">>,
      <<"p","o","s","i","t","i","v","e">>,
      <<"n","o","r","m","a","l">>,
      <<"n","i","l">>,
      <<"a","b","s","e","n","t">>,
      <<"p","r","e","s","e","n","t">>,
      <<"t","r","a","c","e">>,
      <<"m","a","l","e">>,
      <<"f","e","m","a","l","e">> }

RECURSIVE SkipLeading(_, _)
SkipLeading(s, S) ==
    IF s # <<>> /\ Head(s) \in S THEN SkipLeading(Tail(s), S) ELSE s

RECURSIVE TrimTrailing(_)
TrimTrailing(s) ==
    IF s # <<>> /\ s[Len(s)] \in WhiteSpace THEN TrimTrailing(Take(s, Len(s) - 1)) ELSE s

StartsWith(s, p) == Len(s) >= Len(p) /\ Take(s, Len(p)) = p

\* isNaN(parseFloat(x)): parseFloat converts x to a string, skips leading white
\* space and reads the longest prefix that is a decimal literal; what follows
\* the prefix is ignored.  The result is NaN exactly when there is no such prefix.
parseFloatIsNaN(s) ==
    LET t == SkipLeading(s, WhiteSpace)
        u == IF t # <<>> /\ Head(t) \in {"+", "-"} THEN Tail(t) ELSE t
    IN  ~ \/ (u # <<>> /\ Head(u) \in Digits)
          \/ (Len(u) >= 2 /\ u[1] = "." /\ u[2] \in Digits)
          \/ StartsWith(u, <<"I","n","f","i","n","i","t","y">>)

\* no value check at all, as in the streaming variants
is_acceptable_None(v) == TRUE

is_acceptable(v) ==
    /\ v.k \notin {"null", "undefined"}
    /\ ~ (v.k = "string" /\ v.s \in {<<>>, <<"n","u","l","l">>})
    /\ (parseFloatIsNaN(v.s) => toLowerCase(v.s) \in allowedNonNumeric)

(***************************************************************************)
(* Streamed text.  Tokens: the characters { } [ ] , # space and newline;   *)
(* body tokens, each a run of "key":scalar members; "k", a key and its     *)
(* colon, to be followed by a value; the scalars null and 7; and "x", a    *)
(* run of prose.  "Ae" is body "A" written with \_ for every underscore.   *)
(***************************************************************************)
Absent == "undefined"      \* a key the object does not have

JObj(n, v, d) == [t |-> "object", test_name |-> n, value |-> v, report_date |-> d]
JArr(es) == [t |-> "array", elems |-> es]
JNull == [t |-> "null"]
JNum == [t |-> "number"]

EmptyObj == JObj(Absent, Undefined, Absent)

Body ==
    [ A |-> JObj("A", Str(<<"4",".","2">>), "d1"),
      B |-> JObj("B", Null, "d2"),
      C |-> JObj("C", Str(<<"N","e","g","a","t","i","v","e">>), Absent),
      F |-> EmptyObj,
      D |-> JObj("25-OH Vitamin D", Str(<<"1","8">>), "01/Jun/2022"),
      T |-> JObj("Vitamin D Total", Null, Absent) ]

\* Object.assign order of JSON.parse: a later member replaces an earlier one.
Merge(acc, b) ==
    JObj(IF b.test_name # Absent THEN b.test_name ELSE acc.test_name,
         IF b.value # Undefined THEN b.value ELSE acc.value,
         IF b.report_date # Absent THEN b.report_date ELSE acc.report_date)

At(s, i) == IF i >= 1 /\ i <= Len(s) THEN s[i] ELSE "EOF"

RECURSIVE SkipWs(_, _)
SkipWs(s, i) == IF At(s, i) \in WhiteSpace THEN SkipWs(s, i + 1) ELSE i

ParseOk(p, v) == [ok |-> TRUE, pos |-> p, val |-> v]
ParseFail == [ok |-> FALSE, pos |-> 0, val |-> JNull]

RECURSIVE ParseValue(_, _), ParseMembers(_, _, _), ParseElems(_, _, _)
ParseValue(s, i) ==
    LET j == SkipWs(s, i)
        c == At(s, j)
        m == SkipWs(s, j + 1)
    IN  CASE c = "{" -> IF At(s, m) = "}" THEN ParseOk(m + 1, EmptyObj)
                        ELSE ParseMembers(s, m, EmptyObj)
          [] c = "[" -> IF At(s, m) = "]" THEN ParseOk(m + 1, JArr(<<>>))
                        ELSE ParseElems(s, m, <<>>)
          [] c = "null" -> ParseOk(j + 1, JNull)
          [] c = "7" -> ParseOk(j + 1, JNum)
          [] OTHER -> ParseFail

ParseMembers(s, i, acc) ==
    LET c == At(s, i)
        v == ParseValue(s, i + 1)
        r == IF c \in DOMAIN Body THEN ParseOk(i + 1, Merge(acc, Body[c]))
             ELSE IF c = "k" /\ v.ok THEN ParseOk(v.pos, acc)
             ELSE ParseFail
        j == SkipWs(s, r.pos)
        d == At(s, j)
    IN  IF ~ r.ok THEN ParseFail
        ELSE IF d = "}" THEN ParseOk(j + 1, r.val)
        ELSE IF d = "," THEN ParseMembers(s, SkipWs(s, j + 1), r.val)
        ELSE ParseFail

ParseElems(s, i, acc) ==
    LET v == ParseValue(s, i)
        j == SkipWs(s, v.pos)
        d == At(s, j)
    IN  IF ~ v.ok THEN ParseFail
        ELSE IF d = "]" THEN ParseOk(j + 1, JArr(Append(acc, v.val)))
        ELSE IF d = "," THEN ParseElems(s, j + 1, Append(acc, v.val))
        ELSE ParseFail

\* JSON.parse: one value, white space around it, nothing else.
JSONparse(s) ==
    LET r == ParseValue(s, 1)
    IN  IF r.ok /\ SkipWs(s, r.pos) = Len(s) + 1 THEN r ELSE ParseFail

\* String.prototype.trim
trim(s) == TrimTrailing(SkipLeading(s, WhiteSpace))

\* replace(/\\_/g, '_')
Unescape(s) == [i \in 1..Len(s) |-> IF s[i] = "Ae" THEN "A" ELSE s[i]]

\* split('\n'): the pieces between newlines, at least one
RECURSIVE SplitLines(_, _)
SplitLines(s, cur) ==
    IF s = <<>> THEN <<cur>>
    ELSE IF Head(s) = "\n" THEN <<cur>> \o SplitLines(Tail(s), <<>>)
    ELSE SplitLines(Tail(s), Append(cur, Head(s)))

split(s) == SplitLines(s, <<>>)

\* join('\n')
RECURSIVE join(_)
join(ls) ==
    IF Len(ls) = 0 THEN <<>>
    ELSE IF Len(ls) = 1 THEN ls[1]
    ELSE ls[1] \o <<"\n">> \o join(Tail(ls))

\* App.jsx lines 80-85
IsCommentLine(line) == StartsWith(trim(line), <<"#">>)

cleanedOutput(fullOutput) ==
    join(SelectSeq(split(Unescape(fullOutput)), LAMBDA l : ~ IsCommentLine(l)))

(***************************************************************************)
(* App.jsx: recovering objects from the cleaned output (lines 93-128)      *)
(***************************************************************************)
Braces == {"{", "}"}

RECURSIVE SkipNonBrace(_, _)
SkipNonBrace(s, i) ==
    IF i <= Len(s) /\ s[i] \notin Braces THEN SkipNonBrace(s, i + 1) ELSE i

\* The end of the match of  \{[^{}]*(?:\{[^{}]*\}[^{}]*)*\}  whose [^{}]* before
\* position i is already consumed; 0 when there is none.  Every [^{}]* must stop
\* at a brace, so the match is forced.
RECURSIVE MatchGroups(_, _)
MatchGroups(s, i) ==
    LET j == SkipNonBrace(s, i + 1)
    IN  IF At(s, i) = "}" THEN i
        ELSE IF At(s, i) = "{" /\ At(s, j) = "}"
        THEN MatchGroups(s, SkipNonBrace(s, j + 1))
        ELSE 0

MatchEnd(s, i) == IF At(s, i) = "{" THEN MatchGroups(s, SkipNonBrace(s, i + 1)) ELSE 0

\* cleanedOutput.match(jsonRegex): the matches, leftmost first, none overlapping
RECURSIVE RegexMatches(_, _)
RegexMatches(s, i) ==
    IF i > Len(s) THEN <<>>
    ELSE IF MatchEnd(s, i) = 0 THEN RegexMatches(s, i + 1)
    ELSE <<SubSeq(s, i, MatchEnd(s, i))>> \o RegexMatches(s, MatchEnd(s, i) + 1)

\* lines 96-106: the whole trimmed text as one JSON array
ArrayAttempt(cleaned) ==
    LET trimmed == trim(cleaned)
        r == JSONparse(trimmed)
    IN  IF /\ StartsWith(trimmed, <<"[">>)
           /\ At(trimmed, Len(trimmed)) = "]"
           /\ r.ok
           /\ r.val.t = "array"
        THEN r.val.elems
        ELSE <<>>

\* obj.test_name || obj.value !== undefined   (line 120)
HasExpectedFields(obj) == obj.test_name # Absent \/ obj.value # Undefined

\* lines 112-127
ObjectScan(cleaned) ==
    LET matches == RegexMatches(cleaned, 1)
        parsed == [i \in 1..Len(matches) |-> JSONparse(matches[i])]
        kept == SelectSeq(parsed, LAMBDA r : r.ok /\ HasExpectedFields(r.val))
    IN  [i \in 1..Len(kept) |-> kept[i].val]

\* A scan that runs whatever the array attempt found.
ScanNeeded_Always(arr) == TRUE

\* extractedObjects.length === 0   (line 109)
ScanNeeded(arr) == Len(arr) = 0

ExtractObjects(cleaned) ==
    LET arr == ArrayAttempt(cleaned)
    IN  IF ScanNeeded(arr)
        THEN [objects |-> arr \o ObjectScan(cleaned), scanned |-> TRUE]
        ELSE [objects |-> arr, scanned |-> FALSE]

(***************************************************************************)
(* App.jsx: the loop over extractedObjects (lines 131-162).  json.value    *)
(* of null throws a TypeError, which leaves the loop for the catch of      *)
(* line 185; of a number or an array it is undefined.                      *)
(***************************************************************************)
ValueOf(json) == IF json.t = "object" THEN json.value ELSE Undefined
ReportDateOf(json) == IF json.t = "object" THEN json.report_date ELSE Absent

NoDate == "none"           \* reportDate = null

RECURSIVE ProcessObjects(_, _)
ProcessObjects(objs, acc) ==
    IF objs = <<>> THEN acc
    ELSE LET json == Head(objs)
         IN  IF json.t = "null" THEN [acc EXCEPT !.threw = TRUE]
             ELSE IF ~ is_acceptable(ValueOf(json)) THEN ProcessObjects(Tail(objs), acc)
             ELSE ProcessObjects(Tail(objs),
                    [threw |-> FALSE,
                     saved |-> Append(acc.saved, json),
                     count |-> acc.count + 1,
                     date  |-> IF acc.date = NoDate /\ ReportDateOf(json) # Absent
                               THEN ReportDateOf(json) ELSE acc.date])

LoopStart == [threw |-> FALSE, saved |-> <<>>, count |-> 0, date |-> NoDate]

(***************************************************************************)
(* part_000: the lines of one read (lines 74-98).  JSON.parse(line) may    *)
(* yield any JSON value; json.report_date of null throws inside the try    *)
(* of line 81 when no report date is set yet, and the line is skipped.     *)
(***************************************************************************)
RECURSIVE ProcessLines(_, _)
ProcessLines(lines, acc) ==
    IF lines = <<>> THEN acc
    ELSE LET line == Head(lines)
             r == JSONparse(line)
         IN  IF trim(line) = <<>> \/ ~ r.ok \/ (r.val.t = "null" /\ acc.date = NoDate)
             THEN ProcessLines(Tail(lines), acc)
             ELSE ProcessLines(Tail(lines),
                    [threw |-> FALSE,
                     saved |-> Append(acc.saved, r.val),
                     count |-> acc.count + 1,
                     date  |-> IF acc.date = NoDate /\ ReportDateOf(r.val) # Absent
                               THEN ReportDateOf(r.val) ELSE acc.date])

\* A read loop that forgets the incomplete last line.
KeptLine_Dropped(lines) == <<>>

\* buffer = lines.pop()   (line 77)
KeptLine(lines) == lines[Len(lines)]

(***************************************************************************)
(* start.sh App: the brace scan of one read (lines 135-167).  braceCount   *)
(* and startIndex start afresh at every read; the buffer is cut after      *)
(* every fragment tried, parsed or not, and the scan restarts at its head. *)
(***************************************************************************)
RECURSIVE BraceScan(_, _, _, _, _)
BraceScan(buf, i, braceCount, startIndex, items) ==
    IF i > Len(buf) THEN [buffer |-> buf, items |-> items]
    ELSE IF buf[i] = "{"
    THEN BraceScan(buf, i + 1, braceCount + 1,
                   IF braceCount = 0 THEN i ELSE startIndex, items)
    ELSE IF buf[i] = "}"
    THEN IF braceCount - 1 = 0 /\ startIndex # -1
         THEN LET r == JSONparse(Unescape(SubSeq(buf, startIndex, i)))
              IN  BraceScan(Drop(buf, i), 1, 0, -1,
                            IF r.ok THEN Append(items, r.val) ELSE items)
         ELSE BraceScan(buf, i + 1, braceCount - 1, startIndex, items)
    ELSE BraceScan(buf, i + 1, braceCount, startIndex, items)

(***************************************************************************)
(* What /extract may stream: up to MaxFrags fragments in one of five       *)
(* layouts.  A fragment is a record object the model should have written   *)
(* (compact, pretty-printed, nested, over-escaped) or something else       *)
(* (an object without record keys, a truncated object, braces around       *)
(* prose, prose, a stray closing brace, a scalar, a comment line).         *)
(***************************************************************************)
FragTokens ==
    [ oA   |-> <<"{", "A", "}">>,
      oB   |-> <<"{", "B", "}">>,
      oC   |-> <<"{", "C", "}">>,
      pA   |-> <<"{", "\n", " ", "A", "\n", "}">>,
      nst  |-> <<"{", "A", ",", "k", "{", "F", "}", "}">>,
      deep |-> <<"{", "A", ",", "k", "{", "k", "{", "F", "}", "}", "}">>,
      esc  |-> <<"{", "Ae", "}">>,
      oF   |-> <<"{", "F", "}">>,
      tr   |-> <<"{", "A", ",">>,
      gb   |-> <<"{", "x", "}">>,
      gx   |-> <<"x">>,
      cl   |-> <<"}">>,
      nul  |-> <<"null">>,
      num  |-> <<"7">>,
      cmt  |-> <<"#", "x", "\n">>,
      vd   |-> <<"{", "D", "}">>,
      vdt  |-> <<"{", "T", "}">> ]

\* The two Vitamin D objects occur in one text only, EndToEndText below.
FragIds == DOMAIN FragTokens \ {"vd", "vdt"}

\* The record object a fragment is, if it is one.
FragRecord ==
    [ oA |-> Body["A"], oB |-> Body["B"], oC |-> Body["C"], pA |-> Body["A"],
      nst |-> Body["A"], deep |-> Body["A"], esc |-> Body["A"],
      vd |-> Body["D"], vdt |-> Body["T"] ]

RecordFrags == DOMAIN FragRecord

Layouts == {"array", "space", "none", "lines", "nl"}

RECURSIVE JoinWith(_, _)
JoinWith(ss, sep) ==
    IF Len(ss) = 0 THEN <<>>
    ELSE IF Len(ss) = 1 THEN ss[1]
    ELSE ss[1] \o sep \o JoinWith(Tail(ss), sep)

Render(t) ==
    LET toks == [i \in 1..Len(t.frags) |-> FragTokens[t.frags[i]]]
    IN  CASE t.layout = "array" -> <<"[">> \o JoinWith(toks, <<",">>) \o <<"]">>
          [] t.layout = "space" -> JoinWith(toks, <<" ">>)
          [] t.layout = "none"  -> JoinWith(toks, <<>>)
          [] t.layout = "nl"    -> JoinWith(toks, <<"\n">>)
          [] t.layout = "lines" -> Flatten([i \in 1..Len(toks) |-> toks[i] \o <<"\n">>])

\* The 25-OH Vitamin D object, a newline, the Vitamin D Total object.
EndToEndText == [layout |-> "nl", frags |-> <<"vd", "vdt">>]

Texts == [layout : Layouts, frags : SeqsUpTo(FragIds, MaxFrags)] \cup {EndToEndText}

\* In a batch of several files every file streams one of these.
BatchTexts ==
    { [layout |-> "lines", frags |-> <<"oA">>],
      [layout |-> "lines", frags |-> <<"oB", "oC">>],
      [layout |-> "array", frags |-> <<"oA", "nul">>] }

NoText == [layout |-> "none", frags |-> <<>>]

TextsFor(fl) == IF Len(fl) = 1 THEN Texts ELSE BatchTexts

FileNames == {"a.pdf", "b.pdf"}

Batches ==
    {fl \in SeqsUpTo(FileNames, MaxFiles) : fl # <<>> /\ fl[1] = "a.pdf"}

ChunkSizes(r) == {n \in 1..Len(r) : n <= MaxChunk \/ n = Len(r)}

(***************************************************************************)
(* Numbers.  A JavaScript number is null (no number), NaN, or the exact    *)
(* decimal fraction num/den with den a power of ten.                       *)
(***************************************************************************)
NullNum == [k |-> "null", num |-> 0, den |-> 1]
NaN == [k |-> "nan", num |-> 0, den |-> 1]
Number(n, d) == [k |-> "num", num |-> n, den |-> d]
NotRun == [k |-> "notrun", num |-> 0, den |-> 1]

DigitVal(c) == CHOOSE n \in 0..9 : ToString(n) = c

isFinite(x) == x.k = "num"

\* x < y, x = y for two finite numbers
NumLess(x, y) == x.num * y.den < y.num * x.den
NumEq(x, y) == x.num * y.den = y.num * x.den

RECURSIVE ReadDigits(_, _, _)
\* the digits of s from position i on: [pos, n, den] with n the number read
\* and den = 10^(digits read)
ReadDigits(s, i, acc) ==
    IF At(s, i) \in Digits
    THEN ReadDigits(s, i + 1, [pos |-> i + 1, n |-> acc.n * 10 + DigitVal(s[i]),
                               den |-> acc.den * 10])
    ELSE acc

\* parseFloat(s) of a string without exponent part: leading white space is
\* skipped, then an optional sign, digits, and a point with digits are read;
\* whatever follows is ignored.  NaN when no digit was read.
parseFloat(s) ==
    LET t  == SkipLeading(s, WhiteSpace)
        neg == t # <<>> /\ Head(t) = "-"
        u  == IF t # <<>> /\ Head(t) \in {"+", "-"} THEN Tail(t) ELSE t
        ip == ReadDigits(u, 1, [pos |-> 1, n |-> 0, den |-> 1])
        fp == IF At(u, ip.pos) = "."
              THEN ReadDigits(u, ip.pos + 1, [pos |-> ip.pos + 1, n |-> 0, den |-> 1])
              ELSE [pos |-> ip.pos, n |-> 0, den |-> 1]
        any == ip.pos > 1 \/ fp.den > 1
        mag == ip.n * fp.den + fp.n
    IN  IF ~ any THEN NaN
        ELSE Number(IF neg THEN 0 - mag ELSE mag, fp.den)

(***************************************************************************)
(* ResultsDisplay.jsx, TrendView: parseReferenceRange (lines 115-140)      *)
(***************************************************************************)
\* the character class [\d.]
RangeChar(c) == c \in Digits \cup {"."}

RECURSIVE RunEnd(_, _)
\* the first position after the run of [\d.] characters that starts at i
RunEnd(s, i) == IF RangeChar(At(s, i)) THEN RunEnd(s, i + 1) ELSE i

NoMatch == [found |-> FALSE, g1 |-> <<>>, g2 |-> <<>>]

RECURSIVE RangeMatchFrom(_, _)
\* clean.match(/([\d.]+)\s*-\s*([\d.]+)/): the leftmost run of [\d.] that is
\* followed by optional white space, a dash, optional white space and a
\* second run
RangeMatchFrom(s, i) ==
    IF i > Len(s) THEN NoMatch
    ELSE IF ~ RangeChar(s[i]) THEN RangeMatchFrom(s, i + 1)
    ELSE LET e == RunEnd(s, i)
             j == SkipWs(s, e)
             m == SkipWs(s, j + 1)
         IN  IF At(s, j) = "-" /\ RangeChar(At(s, m))
             THEN [found |-> TRUE, g1 |-> SubSeq(s, i, e - 1),
                   g2 |-> SubSeq(s, m, RunEnd(s, m) - 1)]
             ELSE RangeMatchFrom(s, e)

RECURSIVE FirstRunFrom(_, _)
\* clean.match(/[\d.]+/): the first run of [\d.] characters
FirstRunFrom(s, i) ==
    IF i > Len(s) THEN NoMatch
    ELSE IF RangeChar(s[i])
         THEN [found |-> TRUE, g1 |-> SubSeq(s, i, RunEnd(s, i) - 1), g2 |-> <<>>]
         ELSE FirstRunFrom(s, i + 1)

includes(s, c) == \E i \in 1..Len(s) : s[i] = c

Bounds(lo, hi) == [min |-> lo, max |-> hi]

\* the '>' branch written like the '<' branch
parseReferenceRange_GtAsLt(rangeStr_) ==
    IF rangeStr_.k \in {"undefined", "null"} \/ rangeStr_.s = <<>>
    THEN Bounds(NullNum, NullNum)
    ELSE LET clean == toLowerCase(trim(rangeStr_.s))
             rangeMatch == RangeMatchFrom(clean, 1)
             match == FirstRunFrom(clean, 1)
         IN  IF rangeMatch.found
             THEN Bounds(parseFloat(rangeMatch.g1), parseFloat(rangeMatch.g2))
             ELSE IF (includes(clean, "<") \/ includes(clean, ">")) /\ match.found
             THEN Bounds(Number(0, 1), parseFloat(match.g1))
             ELSE Bounds(NullNum, NullNum)

parseReferenceRange(rangeStr_) ==
    IF rangeStr_.k \in {"undefined", "null"} \/ rangeStr_.s = <<>>
    THEN Bounds(NullNum, NullNum)
    ELSE LET clean == toLowerCase(trim(rangeStr_.s))
             rangeMatch == RangeMatchFrom(clean, 1)
             match == FirstRunFrom(clean, 1)
         IN  IF rangeMatch.found
             THEN Bounds(parseFloat(rangeMatch.g1), parseFloat(rangeMatch.g2))
             ELSE IF includes(clean, "<") /\ match.found
             THEN Bounds(Number(0, 1), parseFloat(match.g1))
             ELSE IF includes(clean, ">") /\ match.found
             THEN Bounds(parseFloat(match.g1), NullNum)
             ELSE Bounds(NullNum, NullNum)

(***************************************************************************)
(* ResultsDisplay.jsx, TrendView: the effect of lines 79-112.  A stored     *)
(* record is [test_name, value, reference_range, report_date]; a name is   *)
(* a string, "" or Absent; value, range and date are value records.        *)
(***************************************************************************)
Metric(n, v, r, d) == [test_name |-> n, value |-> v, reference_range |-> r, report_date |-> d]

\* JavaScript truthiness of a string-or-absent field and of a value
TruthyStr(x) == x \notin {Absent, ""}
Truthy(v) ==
    CASE v.k = "string" -> v.s # <<>>
      [] v.k = "number" -> parseFloat(v.s).k = "num" /\ parseFloat(v.s).num # 0
      [] v.k = "boolean" -> TRUE
      [] OTHER -> FALSE

\* a count that takes a record whatever its value
Counted_AnyValue(item) == TruthyStr(item.test_name) /\ Truthy(item.report_date)

\* the test of line 88
Counted(item) == TruthyStr(item.test_name) /\ Truthy(item.value) /\ Truthy(item.report_date)

RECURSIVE CountKeys(_, _)
\* Object.keys(counts): the counted names in the order of their first record
CountKeys(data, keys) ==
    IF data = <<>> THEN keys
    ELSE LET item == Head(data)
         IN  CountKeys(Tail(data),
                       IF Counted(item) /\ ~ \E i \in 1..Len(keys) : keys[i] = item.test_name
                       THEN Append(keys, item.test_name) ELSE keys)

\* counts[name] after the forEach of lines 87-91
CountOf(data, name) == Len(SelectSeq(data, LAMBDA item : Counted(item) /\ item.test_name = name))

RECURSIVE InsertByCount(_, _, _)
\* x goes after every element whose count is not smaller (stable)
InsertByCount(sorted, x, data) ==
    IF sorted = <<>> THEN <<x>>
    ELSE IF CountOf(data, Head(sorted)) >= CountOf(data, x)
         THEN <<Head(sorted)>> \o InsertByCount(Tail(sorted), x, data)
         ELSE <<x>> \o sorted

RECURSIVE SortByCount(_, _, _)
\* .sort((a, b) => counts[b] - counts[a]): a consistent comparator, so the
\* result is the stable descending order
SortByCount(keys, sorted, data) ==
    IF keys = <<>> THEN sorted
    ELSE SortByCount(Tail(keys), InsertByCount(sorted, Head(keys), data), data)

\* the filter of line 97
EnoughPoints(n) == n >= 2

\* lines 96-98
EligibleTests(data) ==
    SortByCount(SelectSeq(CountKeys(data, <<>>), LAMBDA t : EnoughPoints(CountOf(data, t))),
                <<>>, data)

SeqRange(q) == {q[i] : i \in 1..Len(q)}

(***************************************************************************)
(* Dates.  A date string is a sequence of characters; Date parsing is a   *)
(* table over the strings of the model.  A time is a day number, or        *)
(* InvalidTime for the NaN of an Invalid Date.  ECMAScript fixes the       *)
(* parse of the ISO form only; of the other forms every browser reads      *)
(* "01 Jun 2022" and "2022/01/15", while "2022 01 15" and "01/Jun/2022"    *)
(* are read by some browsers and rejected by others (lenientDates).        *)
(***************************************************************************)
InvalidTime == 0 - 1

\* new Date(s).getTime()
getTime(s) ==
    CASE s = <<"2","0","2","1","-","0","3","-","0","5">> -> 20210305
      [] s = <<"2","0","2","2","-","0","6","-","0","1">> -> 20220601
      [] s = <<"0","1"," ","J","u","n"," ","2","0","2","2">> -> 20220601
      [] s = <<"2","0","2","2","/","0","1","/","1","5">> -> 20220115
      [] s = <<"2","0","2","3","-","0","2","-","1","0">> -> 20230210
      [] s = <<"2","0","2","3","-","0","3","-","0","1">> -> 20230301
      [] s = <<"2","0","2","2"," ","0","1"," ","1","5">> ->
             IF lenientDates THEN 20220115 ELSE InvalidTime
      [] s = <<"0","1","/","J","u","n","/","2","0","2","2">> ->
             IF lenientDates THEN 20220601 ELSE InvalidTime
      [] OTHER -> InvalidTime

\* dateStr.replace(/\//g, ' ')
replaceSlashes(s) == [i \in 1..Len(s) |-> IF s[i] = "/" THEN " " ELSE s[i]]

(***************************************************************************)
(* ResultsDisplay.jsx, TrendView: chartData (lines 143-181).  A point      *)
(* keeps pos, the place of its record in metrics, and attempts, the parse  *)
(* strategies tried on its date in their order (both history).             *)
(***************************************************************************)
\* toLocaleDateString('en-GB', {day: 'numeric', month: 'short', year: 'numeric'})
toLocaleDateString(t) ==
    CASE t = 20210305 -> <<"5"," ","M","a","r"," ","2","0","2","1">>
      [] t = 20220601 -> <<"1"," ","J","u","n"," ","2","0","2","2">>
      [] t = 20220115 -> <<"1","5"," ","J","a","n"," ","2","0","2","2">>
      [] t = 20230210 -> <<"1","0"," ","F","e","b"," ","2","0","2","3">>
      [] t = 20230301 -> <<"1"," ","M","a","r"," ","2","0","2","3">>

RECURSIVE FirstNumber(_, _)
\* item.value.toString().match(/(\d+(\.\d+)?)/): the first run of digits,
\* with a point and digits after it when they follow
FirstNumber(str, i) ==
    IF i > Len(str) THEN NaN
    ELSE IF str[i] \in Digits THEN parseFloat(SubSeq(str, i, Len(str)))
    ELSE FirstNumber(str, i + 1)

\* lines 147-151
PointValue(item) ==
    IF parseFloat(item.value.s).k = "nan" THEN FirstNumber(item.value.s, 1)
    ELSE parseFloat(item.value.s)

\* the direct parse first, the parse of the replaced string as fallback
ParseReportDate_DirectFirst(dateStr) ==
    IF getTime(dateStr) # InvalidTime
    THEN [time |-> getTime(dateStr), attempts |-> <<"direct">>]
    ELSE [time |-> getTime(replaceSlashes(dateStr)), attempts |-> <<"direct", "replaced">>]

\* lines 157-163: the string with every / replaced by a space is parsed
\* first, the original string only when that fails
ParseReportDate(dateStr) ==
    IF getTime(replaceSlashes(dateStr)) # InvalidTime
    THEN [time |-> getTime(replaceSlashes(dateStr)), attempts |-> <<"replaced">>]
    ELSE [time |-> getTime(dateStr), attempts |-> <<"replaced", "direct">>]

\* lines 146-180; rawDate is kept as the time new Date(rawDate) of line 181
\* yields: toISOString() and new Date() of it give the time back, and an
\* original string both parses failed on gives an Invalid Date again
ChartPoint(item, pos) ==
    LET p == ParseReportDate(item.report_date.s)
        isValidDate == p.time # InvalidTime
        b == parseReferenceRange(item.reference_range)
    IN  [date |-> IF isValidDate THEN toLocaleDateString(p.time) ELSE item.report_date.s,
         rawTime |-> IF isValidDate THEN p.time ELSE getTime(item.report_date.s),
         value |-> PointValue(item),
         originalValue |-> item.value,
         refMin |-> b.min, refMax |-> b.max, refRange |-> item.reference_range,
         pos |-> pos, attempts |-> p.attempts]

\* (a, b) => new Date(a.rawDate) - new Date(b.rawDate); a NaN result counts
\* as +0 in Array.prototype.sort
compare(a, b) ==
    IF a.rawTime = InvalidTime \/ b.rawTime = InvalidTime THEN 0
    ELSE a.rawTime - b.rawTime

Reverse(q) == [i \in 1..Len(q) |-> q[Len(q) + 1 - i]]

RECURSIVE RunLength(_, _, _)
\* the length of the run that starts the array: strictly descending when
\* desc, otherwise non-descending
RunLength(arr, k, desc) ==
    IF k > Len(arr) THEN k - 1
    ELSE IF desc /\ compare(arr[k], arr[k - 1]) < 0 THEN RunLength(arr, k + 1, desc)
    ELSE IF ~ desc /\ compare(arr[k], arr[k - 1]) >= 0 THEN RunLength(arr, k + 1, desc)
    ELSE k - 1

RECURSIVE BinarySearch(_, _, _, _)
\* where pivot goes in the sorted arr[1..n]; left and right are 0-based
BinarySearch(arr, pivot, left, right) ==
    IF left >= right THEN left
    ELSE LET mid == left + ((right - left) \div 2)
         IN  IF compare(pivot, arr[mid + 1]) < 0
             THEN BinarySearch(arr, pivot, left, mid)
             ELSE BinarySearch(arr, pivot, mid + 1, right)

RECURSIVE BinaryInsertionSort(_, _)
\* arr[1..start-1] is sorted; the elements from start on are inserted
BinaryInsertionSort(arr, start) ==
    IF start > Len(arr) THEN arr
    ELSE LET at == BinarySearch(arr, arr[start], 0, start - 1)
             moved == SubSeq(arr, 1, at) \o <<arr[start]>> \o SubSeq(arr, at + 1, start - 1)
                      \o SubSeq(arr, start + 1, Len(arr))
         IN  BinaryInsertionSort(moved, start + 1)

\* Array.prototype.sort with the comparator of line 181, as V8 sorts an
\* array shorter than 64: the initial run is found (and reversed when it
\* descends), the rest is inserted by binary search
sort(arr) ==
    IF Len(arr) < 2 THEN arr
    ELSE LET desc == compare(arr[2], arr[1]) < 0
             n == RunLength(arr, 3, desc)
             run == SubSeq(arr, 1, n)
             head == IF desc THEN Reverse(run) ELSE run
         IN  BinaryInsertionSort(head \o SubSeq(arr, n + 1, Len(arr)), n + 1)

\* lines 143-181
ChartDataOf(data, selected) ==
    LET idxs == SelectSeq([i \in 1..Len(data) |-> i],
                          LAMBDA i : /\ data[i].test_name = selected
                                     /\ Truthy(data[i].report_date) /\ Truthy(data[i].value))
    IN  sort([k \in 1..Len(idxs) |-> ChartPoint(data[idxs[k]], idxs[k])])

\* the then-callback of lines 82-107
FetchMetricsOk(data) ==
    /\ loading
    /\ metrics' = data
    /\ testCounts' = [t \in SeqRange(CountKeys(data, <<>>)) |-> CountOf(data, t)]
    /\ availableTests' = EligibleTests(data)
    /\ selectedTest' = IF EligibleTests(data) # <<>> THEN EligibleTests(data)[1] ELSE ""
    /\ chartData' = ChartDataOf(data, IF EligibleTests(data) # <<>>
                                      THEN EligibleTests(data)[1] ELSE "")
    /\ loading' = FALSE
    /\ UNCHANGED <<pipeVars, uploadVars, val, verdict, rangeStr, refBounds, lenientDates,
                   dashVars, normVars>>

\* the catch of lines 108-111
FetchMetricsFail ==
    /\ loading
    /\ loading' = FALSE
    /\ UNCHANGED <<pipeVars, uploadVars, val, verdict, rangeStr, refBounds, metrics, selectedTest,
                   availableTests, testCounts, chartData, lenientDates, dashVars,
                   normVars>>

\* onChange of the select, line 193
SelectTest(t) ==
    /\ ~ loading
    /\ \E i \in 1..Len(availableTests) : availableTests[i] = t
    /\ selectedTest' = t
    /\ chartData' = ChartDataOf(metrics, t)
    /\ UNCHANGED <<pipeVars, uploadVars, val, verdict, rangeStr, refBounds, metrics, loading,
                   availableTests, testCounts, lenientDates, dashVars, normVars>>

(***************************************************************************)
(* The alert computation of the backend behind /alerts (its code is not   *)
(* among the sources): for each test the chronologically latest record     *)
(* with a value and a date; an alert only when the range parses to two     *)
(* finite bounds and the value lies outside them.                          *)
(***************************************************************************)
\* the tolerant date parse: direct, then with every / replaced by a space
TolerantTime(s) ==
    IF getTime(s) # InvalidTime THEN getTime(s) ELSE getTime(replaceSlashes(s))

HasValueAndDate(rec) == Truthy(rec.value) /\ Truthy(rec.report_date)

RecTime(rec) == TolerantTime(rec.report_date.s)

\* the position in h of the latest record of test name n with a value and a
\* date (the last one among equals), 0 when there is none
LatestIndex(h, n) ==
    LET C == {i \in 1..Len(h) : h[i].test_name = n /\ HasValueAndDate(h[i])}
    IN  IF C = {} THEN 0
        ELSE CHOOSE i \in C : \A j \in C :
                \/ RecTime(h[j]) < RecTime(h[i])
                \/ (RecTime(h[j]) = RecTime(h[i]) /\ j <= i)

\* round(n / m) for n >= 0 and m > 0, a tie rounded up
Round(n, m) == (2 * n + m) \div (2 * m)

\* round(((far - near) / bound) * 100) for far > near
DeviationPercent(far, near, bound) ==
    Round((far.num * near.den - near.num * far.den) * 100 * bound.den,
          far.den * near.den * bound.num)

NoAlert == [status |-> "none", deviation |-> 0]

\* status and deviation of one record; a deviation of 0 stands for "unavailable"
Classify(rec) ==
    LET b == parseReferenceRange(rec.reference_range)
        v == parseFloat(rec.value.s)
    IN  IF ~ (isFinite(b.min) /\ isFinite(b.max) /\ isFinite(v)) THEN NoAlert
        ELSE IF NumLess(v, b.min)
        THEN [status |-> "low",
              deviation |-> IF b.min.num = 0 THEN 0 ELSE DeviationPercent(b.min, v, b.min)]
        ELSE IF NumLess(b.max, v)
        THEN [status |-> "high",
              deviation |-> IF b.max.num = 0 THEN 0 ELSE DeviationPercent(v, b.max, b.max)]
        ELSE NoAlert

AlertEntry(rec) ==
    [test_name |-> rec.test_name, value |-> rec.value,
     reference_range |-> rec.reference_range, report_date |-> rec.report_date,
     status |-> Classify(rec).status, deviation |-> Classify(rec).deviation]

RECURSIVE ComputeAlerts(_, _)
\* one entry per test whose latest record lies outside its bounds, in the
\* order of the latest records in the store
ComputeAlerts(h, i) ==
    IF i > Len(h) THEN <<>>
    ELSE IF LatestIndex(h, h[i].test_name) = i /\ Classify(h[i]).status # "none"
         THEN <<AlertEntry(h[i])>> \o ComputeAlerts(h, i + 1)
         ELSE ComputeAlerts(h, i + 1)

(***************************************************************************)
(* The Normalizer of the backend (its code is not among the sources; the   *)
(* README names its transforms): test-name canonicalization, unit          *)
(* normalization and conversion, reference-range cleanup, auto-fill.       *)
(* A record is [test_name, canonical_test_name, value, unit,               *)
(* reference_range, report_date, raw_range]; value is a number, unit a     *)
(* string or Absent, reference_range a value record; raw_range (history)   *)
(* is the range the record arrived with.                                   *)
(***************************************************************************)
Rec(n, c, v, u, r, d) ==
    [test_name |-> n, canonical_test_name |-> c, value |-> v, unit |-> u,
     reference_range |-> r, report_date |-> d, raw_range |-> r]

NoRecord == Rec(Absent, Absent, NullNum, Absent, Null, Null)

\* the alias table: a variant spelling, in any case, and its canonical name
Alias(name) ==
    CASE name \in {"Vitamin D Total", "vitamin d total", "25-OH Vitamin D",
                   "25-oh vitamin d", "VITAMIN D"} -> "Vitamin D"
      [] name \in {"Cholesterol", "cholesterol total", "TOTAL CHOLESTEROL"} -> "Total Cholesterol"
      [] OTHER -> name

Canonicalize(rec) == [rec EXCEPT !.canonical_test_name = Alias(rec.test_name)]

\* cosmetic normalization: the canonical spelling of a known unit
CanonicalUnit(u) ==
    CASE u \in {"mg/dl", "MG/DL", "mg/dL"} -> "mg/dL"
      [] u \in {"mmol/l", "mmol/L"} -> "mmol/L"
      [] u \in {"ng/ml", "ng/mL"} -> "ng/mL"
      [] OTHER -> u

\* the tests with a conversion factor from mmol/L to mg/dL, in hundredths
HasFactor(c) == c = "Total Cholesterol"
FactorHundredths(c) == 3867

\* the value is converted whatever the unit is
ConvertUnit_Always(rec) ==
    [rec EXCEPT !.value = Number(rec.value.num * FactorHundredths(rec.canonical_test_name),
                                 rec.value.den * 100),
                !.unit = "mg/dL"]

\* system conversion: only for a test with a known factor and a value in mmol/L
ConvertUnit(rec) ==
    IF HasFactor(rec.canonical_test_name) /\ rec.unit = "mmol/L" /\ isFinite(rec.value)
    THEN [rec EXCEPT !.value = Number(rec.value.num * FactorHundredths(rec.canonical_test_name),
                                      rec.value.den * 100),
                     !.unit = "mg/dL"]
    ELSE rec

NormalizeUnit(rec) == ConvertUnit([rec EXCEPT !.unit = CanonicalUnit(rec.unit)])

RECURSIVE LastDigit(_, _)
\* the position of the last digit of s at or before i, 0 when there is none
LastDigit(s, i) ==
    IF i = 0 THEN 0 ELSE IF s[i] \in Digits THEN i ELSE LastDigit(s, i - 1)

\* a decimal number: digits, one point, digits
IsDecimal(run) ==
    /\ Cardinality({i \in 1..Len(run) : run[i] = "."}) = 1
    /\ run[1] # "." /\ run[Len(run)] # "."

RECURSIVE StripFraction(_)
\* a decimal number without the zeros that end its fraction, and without
\* the point when nothing is left of the fraction
StripFraction(run) ==
    IF run[Len(run)] = "0" THEN StripFraction(Take(run, Len(run) - 1))
    ELSE IF run[Len(run)] = "." THEN Take(run, Len(run) - 1)
    ELSE run

\* only a decimal number is rewritten
StripZeros(run) == IF IsDecimal(run) THEN StripFraction(run) ELSE run

RECURSIVE NormalizeDecimals(_, _)
NormalizeDecimals(s, i) ==
    IF i > Len(s) THEN <<>>
    ELSE IF RangeChar(s[i])
         THEN StripZeros(SubSeq(s, i, RunEnd(s, i) - 1)) \o NormalizeDecimals(s, RunEnd(s, i))
         ELSE <<s[i]>> \o NormalizeDecimals(s, i + 1)

\* cleanup: what follows the last digit (a unit) is dropped, white space
\* is removed, decimals are normalized; a range without a digit is kept
CleanRangeString(s) ==
    IF LastDigit(s, Len(s)) = 0 THEN s
    ELSE NormalizeDecimals(SelectSeq(Take(s, LastDigit(s, Len(s))), LAMBDA ch : ch # " "), 1)

CleanRange(rec) ==
    IF rec.reference_range.k = "string"
    THEN [rec EXCEPT !.reference_range = Str(CleanRangeString(rec.reference_range.s))]
    ELSE rec

\* the three transforms in their order
NormalizeRecord(rec) == CleanRange(NormalizeUnit(Canonicalize(rec)))

RangeAbsent(rec) == rec.reference_range.k # "string" \/ rec.reference_range.s = <<>>

\* any earlier or later record of the test may be the source
IsPrior_AnyDate(h, j, rec) ==
    /\ h[j].canonical_test_name = rec.canonical_test_name
    /\ ~ RangeAbsent(h[j])

\* h[j] is a record of the same canonical test that carries a range and
\* whose report date is earlier than that of rec
IsPrior(h, j, rec) ==
    /\ h[j].canonical_test_name = rec.canonical_test_name
    /\ ~ RangeAbsent(h[j])
    /\ rec.report_date.k = "string" /\ h[j].report_date.k = "string"
    /\ TolerantTime(h[j].report_date.s) # InvalidTime
    /\ TolerantTime(rec.report_date.s) # InvalidTime
    /\ TolerantTime(h[j].report_date.s) < TolerantTime(rec.report_date.s)

\* auto-fill: an absent range is copied from the most recent prior record
\* (the last stored among equals); without one it stays absent
AutoFill(rec, h) ==
    LET P == {j \in 1..Len(h) : IsPrior(h, j, rec)}
        src == CHOOSE j \in P : \A k \in P :
                  \/ TolerantTime(h[k].report_date.s) < TolerantTime(h[j].report_date.s)
                  \/ (TolerantTime(h[k].report_date.s) = TolerantTime(h[j].report_date.s)
                      /\ k <= j)
    IN  IF RangeAbsent(rec) /\ P # {}
        THEN [rec EXCEPT !.reference_range = h[src].reference_range]
        ELSE rec

\* one record arrives at /save: it is normalized, auto-filled and appended
SaveRecord(raw) ==
    /\ Len(store) < MaxStore
    /\ store' = Append(store, AutoFill(NormalizeRecord(raw), store))
    /\ UNCHANGED <<pipeVars, uploadVars, val, verdict, rangeStr, refBounds, trendVars, alerts,
                   dashLoading, dashError, expandedCategories, now, normVars>>

(***************************************************************************)
(* Dashboard.jsx: the effect of lines 57-79 and the badges of lines        *)
(* 241-249.                                                                *)
(***************************************************************************)
\* lines 4-49
METRIC_CATEGORIES ==
    <<[name |-> "Lipid Panel",
       tests |-> <<<<"T","o","t","a","l"," ","C","h","o","l","e","s","t","e","r","o","l">>,
                    <<"L","D","L"," ","C","h","o","l","e","s","t","e","r","o","l">>,
                    <<"H","D","L"," ","C","h","o","l","e","s","t","e","r","o","l">>,
                    <<"T","r","i","g","l","y","c","e","r","i","d","e","s">>,
                    <<"V","L","D","L"," ","C","h","o","l","e","s","t","e","r","o","l">>,
                    <<"N","o","n","-","H","D","L"," ","C","h","o","l","e","s","t","e","r","o","l">>,
                    <<"L","D","L","/","H","D","L"," ","R","a","t","i","o">>>>],
      [name |-> "Blood Sugar",
       tests |-> <<<<"F","a","s","t","i","n","g"," ","G","l","u","c","o","s","e">>,
                    <<"P","o","s","t","-","P","r","a","n","d","i","a","l"," ","G","l","u","c","o","s","e">>,
                    <<"H","b","A","1","c">>,
                    <<"G","l","u","c","o","s","e">>>>],
      [name |-> "Blood Count",
       tests |-> <<<<"H","e","m","o","g","l","o","b","i","n">>,
                    <<"R","B","C"," ","C","o","u","n","t">>,
                    <<"W","B","C"," ","C","o","u","n","t">>,
                    <<"P","l","a","t","e","l","e","t"," ","C","o","u","n","t">>,
                    <<"H","e","m","a","t","o","c","r","i","t">>,
                    <<"M","C","V">>,
                    <<"M","C","H">>,
                    <<"M","C","H","C">>,
                    <<"R","D","W","-","C","V">>,
                    <<"R","D","W","-","S","D">>,
                    <<"E","S","R">>>>],
      [name |-> "Liver Function",
       tests |-> <<<<"S","G","P","T","/","A","L","T">>,
                    <<"S","G","O","T","/","A","S","T">>,
                    <<"A","l","k","a","l","i","n","e"," ","P","h","o","s","p","h","a","t","a","s","e">>,
                    <<"T","o","t","a","l"," ","B","i","l","i","r","u","b","i","n">>,
                    <<"D","i","r","e","c","t"," ","B","i","l","i","r","u","b","i","n">>,
                    <<"G","G","T">>>>],
      [name |-> "Kidney Function",
       tests |-> <<<<"C","r","e","a","t","i","n","i","n","e">>,
                    <<"B","U","N">>,
                    <<"U","r","i","c"," ","A","c","i","d">>,
                    <<"e","G","F","R">>>>],
      [name |-> "Proteins",
       tests |-> <<<<"T","o","t","a","l"," ","P","r","o","t","e","i","n">>,
                    <<"A","l","b","u","m","i","n">>,
                    <<"G","l","o","b","u","l","i","n">>,
                    <<"A","/","G"," ","R","a","t","i","o">>>>],
      [name |-> "Thyroid",
       tests |-> <<<<"T","S","H">>,
                    <<"T","3">>,
                    <<"T","4">>,
                    <<"F","r","e","e"," ","T","3">>,
                    <<"F","r","e","e"," ","T","4">>>>],
      [name |-> "Vitamins",
       tests |-> <<<<"V","i","t","a","m","i","n"," ","D">>,
                    <<"V","i","t","a","m","i","n"," ","B","1","2">>,
                    <<"F","o","l","a","t","e">>,
                    <<"I","r","o","n">>,
                    <<"F","e","r","r","i","t","i","n">>>>],
      [name |-> "Electrolytes",
       tests |-> <<<<"S","o","d","i","u","m">>,
                    <<"P","o","t","a","s","s","i","u","m">>,
                    <<"C","h","l","o","r","i","d","e">>,
                    <<"C","a","l","c","i","u","m">>,
                    <<"M","a","g","n","e","s","i","u","m">>,
                    <<"P","h","o","s","p","h","o","r","u","s">>>>],
      [name |-> "Cardiac",
       tests |-> <<<<"S","y","s","t","o","l","i","c"," ","B","l","o","o","d"," ","P","r","e","s","s","u","r","e">>,
                    <<"D","i","a","s","t","o","l","i","c"," ","B","l","o","o","d"," ","P","r","e","s","s","u","r","e">>,
                    <<"H","e","a","r","t"," ","R","a","t","e">>,
                    <<"P","/","Q","R","S"," ","R","a","t","i","o">>,
                    <<"T","-","w","a","v","e"," ","D","u","r","a","t","i","o","n">>,
                    <<"P","r","o","t","h","r","o","m","b","i","n"," ","T","i","m","e">>>>],
      [name |-> "Other",
       tests |-> <<>>]>>

\* the characters of a test name of the model
NameChars(testName) ==
    CASE testName = "Hb" -> <<"H","b">>
      [] testName = "TSH" -> <<"T","S","H">>
      [] testName = "Total" -> <<"T","o","t","a","l">>
      [] testName = "Zinc" -> <<"Z","i","n","c">>
      [] testName = "glucose" -> <<"g","l","u","c","o","s","e">>
      [] testName = "Vitamin D Total" -> <<"V","i","t","a","m","i","n"," ","D"," ","T","o","t","a","l">>

\* String.prototype.includes
includesString(hay, needle) ==
    \E i \in 0..(Len(hay) - Len(needle)) : SubSeq(hay, i + 1, i + Len(needle)) = needle

\* a keyword of the tests that only has to contain the test name
Matches_OneWay(testName, t) ==
    includesString(toLowerCase(t), toLowerCase(NameChars(testName)))

\* line 84: the test name contains the keyword or the keyword contains it
Matches(testName, t) ==
    \/ includesString(toLowerCase(NameChars(testName)), toLowerCase(t))
    \/ includesString(toLowerCase(t), toLowerCase(NameChars(testName)))

RECURSIVE CategoryFrom(_, _)
\* the loop of lines 82-88 from entry k on
CategoryFrom(testName, k) ==
    IF k > Len(METRIC_CATEGORIES) THEN "Other"
    ELSE IF METRIC_CATEGORIES[k].name = "Other" THEN CategoryFrom(testName, k + 1)
    ELSE IF \E i \in 1..Len(METRIC_CATEGORIES[k].tests) :
                Matches(testName, METRIC_CATEGORIES[k].tests[i])
         THEN METRIC_CATEGORIES[k].name
         ELSE CategoryFrom(testName, k + 1)

\* the test names of the model
TestNames == {"Hb", "TSH", "Total", "Zinc", "glucose", "Vitamin D Total"}

\* lines 81-89, worked out once for every test name of the model
CategoryTable == [testName \in TestNames |-> CategoryFrom(testName, 1)]

getCategoryForTest(testName) == CategoryTable[testName]

\* the then-callback of lines 63-73 with the answer data
ReceiveAlerts(data) ==
    /\ dashLoading
    /\ alerts' = data
    /\ expandedCategories' = {getCategoryForTest(data[i].test_name) : i \in 1..Len(data)}
    /\ dashLoading' = FALSE
    /\ UNCHANGED <<pipeVars, uploadVars, val, verdict, rangeStr, refBounds, trendVars,
                   store, dashError, now, normVars>>

\* lines 58-73: the backend answers with the alerts of its store
FetchAlertsOk == ReceiveAlerts(ComputeAlerts(store, 1))

\* lines 60 and 74-78: the fetch rejects or answers with a status that is not OK
FetchAlertsFail ==
    /\ dashLoading
    /\ dashError' = TRUE
    /\ dashLoading' = FALSE
    /\ UNCHANGED <<pipeVars, uploadVars, val, verdict, rangeStr, refBounds, trendVars,
                   store, alerts, expandedCategories, now, normVars>>

\* the comparator with its operands exchanged
compareDeviation_Ascending(a, b) == a.deviation - b.deviation

\* the comparator of line 103
compareDeviation(a, b) == b.deviation - a.deviation

RECURSIVE InsertByDeviation(_, _)
\* x goes after every element the comparator does not put behind it (stable)
InsertByDeviation(sorted, x) ==
    IF sorted = <<>> THEN <<x>>
    ELSE IF compareDeviation(Head(sorted), x) <= 0
         THEN <<Head(sorted)>> \o InsertByDeviation(Tail(sorted), x)
         ELSE <<x>> \o sorted

RECURSIVE SortByDeviation(_, _)
\* line 103: deviations are numbers (null counts as 0 in the difference, as
\* in every other use the dashboard makes of it), so the comparator is
\* consistent and the result is the stable order it defines
SortByDeviation(list, sorted) ==
    IF list = <<>> THEN sorted
    ELSE SortByDeviation(Tail(list), InsertByDeviation(sorted, Head(list)))

\* lines 91-107: per category with an alert, its alerts, sorted
groupAlertsByCategory(as) ==
    [c \in {getCategoryForTest(as[i].test_name) : i \in 1..Len(as)} |->
        SortByDeviation(SelectSeq(as, LAMBDA al : getCategoryForTest(al.test_name) = c), <<>>)]

\* line 183
categoryOrder(as) ==
    SelectSeq([k \in 1..Len(METRIC_CATEGORIES) |-> METRIC_CATEGORIES[k].name],
              LAMBDA c : c \in DOMAIN groupAlertsByCategory(as))

\* lines 109-119, from the button of lines 216-219
toggleCategory(category) ==
    /\ ~ dashLoading /\ ~ dashError
    /\ category \in SeqRange(categoryOrder(alerts))
    /\ expandedCategories' = IF category \in expandedCategories
                              THEN expandedCategories \ {category}
                              ELSE expandedCategories \cup {category}
    /\ UNCHANGED <<pipeVars, uploadVars, val, verdict, rangeStr, refBounds, trendVars,
                   store, alerts, dashLoading, dashError, now, normVars>>

\* the days from 1 Jan 1970 to the day t (year * 10000 + month * 100 + day)
EpochDay(t) ==
    LET y == (t \div 10000) - (IF (t \div 100) % 100 <= 2 THEN 1 ELSE 0)
        m == (t \div 100) % 100
        d == t % 100
        era == y \div 400
        yoe == y - era * 400
        doy == ((153 * (IF m > 2 THEN m - 3 ELSE m + 9) + 2) \div 5) + d - 1
        doe == yoe * 365 + (yoe \div 4) - (yoe \div 100) + doy
    IN  era * 146097 + doe - 719468

Age(stale, veryStale) == [isStale |-> stale, isVeryStale |-> veryStale]

\* a reading is stale from 366 days on
getReadingAge_LateYear(dateStr) ==
    IF ~ Truthy(dateStr) THEN Age(FALSE, FALSE)
    ELSE IF getTime(replaceSlashes(dateStr.s)) = InvalidTime THEN Age(FALSE, FALSE)
    ELSE LET days == EpochDay(now) - EpochDay(getTime(replaceSlashes(dateStr.s)))
         IN  IF days >= 2 * 365 THEN Age(TRUE, TRUE)
             ELSE IF days > 365 THEN Age(TRUE, FALSE)
             ELSE Age(FALSE, FALSE)

\* lines 138-158: diffYears is the elapsed time over 365 days
getReadingAge(dateStr) ==
    IF ~ Truthy(dateStr) THEN Age(FALSE, FALSE)
    ELSE IF getTime(replaceSlashes(dateStr.s)) = InvalidTime THEN Age(FALSE, FALSE)
    ELSE LET days == EpochDay(now) - EpochDay(getTime(replaceSlashes(dateStr.s)))
         IN  IF days >= 2 * 365 THEN Age(TRUE, TRUE)
             ELSE IF days >= 365 THEN Age(TRUE, FALSE)
             ELSE Age(FALSE, FALSE)

\* lines 121-135: only the string with every / replaced by a space is parsed
formatDate(dateStr) ==
    IF ~ Truthy(dateStr) THEN <<"U","n","k","n","o","w","n"," ","d","a","t","e">>
    ELSE IF getTime(replaceSlashes(dateStr.s)) = InvalidTime THEN dateStr.s
    ELSE toLocaleDateString(getTime(replaceSlashes(dateStr.s)))

\* line 243
StatusBadge(alert) == IF alert.status = "high" THEN "HIGH" ELSE "LOW"

\* the percentage is shown for every deviation, zero included
DeviationShown_Always(alert) == TRUE

\* line 246: the percentage is shown, otherwise a dash
DeviationShown(alert) == alert.deviation > 0

\* line 247
DirectionText(alert) == IF alert.status = "high" THEN "above" ELSE "below"

(***************************************************************************)
(* App.jsx: handleUpload, processFile, saveToDatabase                      *)
(***************************************************************************)
\* the trend view and the dashboard are not mounted
\* TrendView lines 73-77: the state a mounted TrendView starts with
TrendViewInitial ==
    /\ metrics = <<>> /\ loading = TRUE /\ selectedTest = ""
    /\ availableTests = <<>> /\ testCounts = <<>> /\ chartData = <<>>

\* Dashboard lines 52-54: the state a mounted Dashboard starts with
DashboardInitial ==
    /\ alerts = <<>> /\ dashLoading = TRUE /\ dashError = FALSE
    /\ expandedCategories = {}

NormalizerIdle == normRec = NoRecord /\ normPrev = NoRecord /\ normCount = 0

RangeIdle == rangeStr = Undefined /\ refBounds = Bounds(NotRun, NotRun)

NoUploads == runs = <<>> /\ uploads = <<>>

AnalyzerIdle ==
    /\ NoUploads
    /\ RangeIdle
    /\ TrendViewInitial /\ lenientDates = FALSE
    /\ store = <<>>
    /\ DashboardInitial /\ now = 20240229
    /\ NormalizerIdle

InitPipeline ==
    /\ AnalyzerIdle
    /\ fileList = <<>> /\ idx = 0 /\ pc = "idle"
    /\ text = NoText /\ rest = <<>> /\ buffer = <<>>
    /\ extractedCount = 0 /\ reportDate = NoDate
    /\ extracted = <<>> /\ scanned = FALSE
    /\ sent = <<>> /\ inflight = [f \in 1..MaxFiles |-> 0] /\ ledger = <<>>
    /\ recorded = <<>>
    /\ fileStatuses = <<>> /\ isLoading = FALSE /\ view = "upload"
    /\ error = FALSE /\ autoSave = TRUE /\ received = FALSE
    /\ val = Undefined /\ verdict = "none"

Init == InitPipeline

\* setFileStatuses(prev => prev.map(f => f.name === name ? {...f, status} : f))
SetStatus(fs, name, st) ==
    [i \in 1..Len(fs) |-> IF fs[i].name = name THEN [fs[i] EXCEPT !.status = st] ELSE fs[i]]

Entry(i, st, n, d) == [file |-> i, status |-> st, data_points_extracted |-> n, report_date |-> d]
SuccessEntry(i, n, d) == Entry(i, "Success", n, d)
FailedEntry(i) == Entry(i, "Failed", 0, Absent)

SaveRequests(i, items) == [j \in 1..Len(items) |-> [file |-> i, item |-> items[j]]]

\* handleUpload lines 24-36 and processFile lines 46-57 of the first file
Upload(fl) ==
    /\ pc = "idle" /\ fileList = <<>>
    /\ fileList' = fl
    /\ isLoading' = TRUE
    /\ error' = FALSE
    /\ fileStatuses' = SetStatus([i \in 1..Len(fl) |-> [name |-> fl[i], status |-> "pending"]],
                                 fl[1], "processing")
    /\ idx' = 1
    /\ pc' = "extract"
    /\ UNCHANGED <<text, rest, buffer, extractedCount, reportDate, extracted, scanned,
                   sent, inflight, ledger, view, autoSave, received, recorded,
                   harnessVars>>

\* processFile returned for file idx with its status set: the loop of line 36
\* goes on to the next file (lines 46-57) or handleUpload ends (lines 40-41).
FileDone(st) ==
    LET fs == SetStatus(fileStatuses, fileList[idx], st)
    IN  /\ text' = NoText /\ rest' = <<>> /\ buffer' = <<>> /\ received' = FALSE
        /\ extractedCount' = 0 /\ reportDate' = NoDate
        /\ extracted' = <<>> /\ scanned' = FALSE
        /\ IF idx < Len(fileList)
           THEN /\ idx' = idx + 1
                /\ fileStatuses' = SetStatus(fs, fileList[idx + 1], "processing")
                /\ pc' = "extract"
                /\ UNCHANGED <<isLoading, view>>
           ELSE /\ idx' = idx
                /\ fileStatuses' = fs
                /\ pc' = "finished"
                /\ isLoading' = FALSE
                /\ view' = "history"

\* The locals of processFile's try block (lines 63-67) are out of scope once the
\* block is left.
ClearLocals ==
    /\ rest' = <<>> /\ buffer' = <<>>
    /\ extractedCount' = 0 /\ reportDate' = NoDate
    /\ extracted' = <<>> /\ scanned' = FALSE

\* The catch of line 185 up to its await: the Failed request is issued.
CatchFailure ==
    /\ ledger' = Append(ledger, FailedEntry(idx))
    /\ pc' = "recordFailed"
    /\ ClearLocals

\* fetch('/extract') rejects, or answers with a status that is not OK (line 59)
ExtractFail ==
    /\ pc = "extract"
    /\ CatchFailure
    /\ UNCHANGED <<fileList, idx, text, sent, inflight, fileStatuses, isLoading,
                   view, error, autoSave, received, recorded,
                   harnessVars>>

\* fetch('/extract') answers OK; lines 63-67
ExtractOk(t) ==
    /\ pc = "extract"
    /\ text' = t
    /\ rest' = Render(t)
    /\ buffer' = <<>>
    /\ extractedCount' = 0 /\ reportDate' = NoDate
    /\ extracted' = <<>> /\ scanned' = FALSE
    /\ pc' = "read"
    /\ received' = FALSE
    /\ UNCHANGED <<fileList, idx, sent, inflight, ledger, fileStatuses, isLoading,
                   view, error, autoSave, recorded,
                   harnessVars>>

\* reader.read() delivers the next n tokens; lines 71-74
ReadChunk(n) ==
    /\ pc = "read"
    /\ n \in ChunkSizes(rest)
    /\ buffer' = buffer \o Take(rest, n)
    /\ rest' = Drop(rest, n)
    /\ UNCHANGED <<fileList, idx, pc, text, extractedCount, reportDate, extracted,
                   scanned, sent, inflight, ledger, fileStatuses, isLoading, view,
                   error, autoSave, received, recorded,
                   harnessVars>>

\* reader.read() rejects
ReadError ==
    /\ pc = "read"
    /\ CatchFailure
    /\ UNCHANGED <<fileList, idx, text, sent, inflight, fileStatuses, isLoading,
                   view, error, autoSave, received, recorded,
                   harnessVars>>

\* reader.read() reports done: lines 77-178 up to the await of line 167, or,
\* when the loop of line 131 throws, up to the await of line 189.
ReadDone ==
    /\ pc = "read" /\ rest = <<>>
    /\ received' = TRUE
    /\ LET ex == ExtractObjects(cleanedOutput(buffer))
           out == ProcessObjects(ex.objects, LoopStart)
       IN  /\ sent' = sent \o SaveRequests(idx, out.saved)
           /\ inflight' = [inflight EXCEPT ![idx] = @ + Len(out.saved)]
           /\ IF out.threw
              THEN CatchFailure
              ELSE /\ extracted' = ex.objects
                   /\ scanned' = ex.scanned
                   /\ extractedCount' = out.count
                   /\ reportDate' = out.date
                   /\ ledger' = Append(ledger, SuccessEntry(idx, out.count, out.date))
                   /\ pc' = "recordSuccess"
                   /\ UNCHANGED <<rest, buffer>>
    /\ UNCHANGED <<fileList, idx, text, fileStatuses, isLoading, view, error,
                   autoSave, recorded,
                   harnessVars>>

\* the fetch of line 167 resolves, with whatever status (response.ok is not
\* looked at): the backend wrote the entry or answered with an error; lines
\* 181-183
RecordSuccessOk ==
    /\ pc = "recordSuccess"
    /\ FileDone("complete")
    /\ recorded' \in {recorded, Append(recorded, ledger[Len(ledger)])}
    /\ UNCHANGED <<fileList, sent, inflight, ledger, error, autoSave, harnessVars>>

\* the fetch of line 167 rejects, before or after the backend wrote the
\* entry: the catch of line 185
RecordSuccessReject ==
    /\ pc = "recordSuccess"
    /\ CatchFailure
    /\ recorded' \in {recorded, Append(recorded, ledger[Len(ledger)])}
    /\ UNCHANGED <<fileList, idx, text, sent, inflight, fileStatuses, isLoading,
                   view, error, autoSave, received, harnessVars>>

\* the fetch of line 189 resolves; lines 201-203
RecordFailedOk ==
    /\ pc = "recordFailed"
    /\ FileDone("error")
    /\ recorded' \in {recorded, Append(recorded, ledger[Len(ledger)])}
    /\ UNCHANGED <<fileList, sent, inflight, ledger, error, autoSave, harnessVars>>

\* the fetch of line 189 rejects inside the catch: processFile rejects, and with
\* it the await of line 37 and handleUpload; lines 38-41 never run.
RecordFailedReject ==
    /\ pc = "recordFailed"
    /\ pc' = "rejected"
    /\ recorded' \in {recorded, Append(recorded, ledger[Len(ledger)])}
    /\ UNCHANGED <<fileList, idx, text, rest, buffer, extractedCount, reportDate,
                   extracted, scanned, sent, inflight, ledger, fileStatuses,
                   isLoading, view, error, autoSave, received, harnessVars>>

\* saveToDatabase lines 211-225: the fetch of one save request of file f
\* settles (the toast it sets is not part of the model).
SaveSettle(f) ==
    /\ inflight[f] > 0
    /\ inflight' = [inflight EXCEPT ![f] = @ - 1]
    /\ UNCHANGED <<fileList, idx, pc, text, rest, buffer, extractedCount, reportDate,
                   extracted, scanned, sent, ledger, fileStatuses, isLoading, view,
                   error, autoSave, received, recorded,
                   harnessVars>>

Next ==
    \/ \E fl \in Batches : Upload(fl)
    \/ ExtractFail
    \/ pc = "extract" /\ \E t \in TextsFor(fileList) : ExtractOk(t)
    \/ \E n \in 1..Len(rest) : ReadChunk(n)
    \/ ReadError
    \/ ReadDone
    \/ RecordSuccessOk
    \/ RecordSuccessReject
    \/ RecordFailedOk
    \/ RecordFailedReject
    \/ \E f \in 1..MaxFiles : SaveSettle(f)

Spec == Init /\ [][Next]_vars

\* every request and every read settles: a step that can be taken is taken
SpecFair == Spec /\ WF_vars(Next)

(***************************************************************************)
(* part_000: the same handleUpload and saveToDatabase; processFile parses  *)
(* each read's complete lines as they arrive and validates nothing.        *)
(***************************************************************************)
\* lines 70-98: one read and the lines it completes
LinesReadChunk(n) ==
    /\ pc = "read"
    /\ n \in ChunkSizes(rest)
    /\ LET lines == split(buffer \o Take(rest, n))
           out == ProcessLines(Take(lines, Len(lines) - 1),
                               [threw |-> FALSE, saved |-> <<>>,
                                count |-> extractedCount, date |-> reportDate])
       IN  /\ buffer' = KeptLine(lines)
           /\ extracted' = extracted \o out.saved
           /\ extractedCount' = out.count
           /\ reportDate' = out.date
           /\ sent' = sent \o SaveRequests(idx, out.saved)
           /\ inflight' = [inflight EXCEPT ![idx] = @ + Len(out.saved)]
    /\ rest' = Drop(rest, n)
    /\ UNCHANGED <<fileList, idx, pc, text, scanned, ledger, fileStatuses, isLoading,
                   view, error, autoSave, received, recorded,
                   harnessVars>>

\* line 71 reports done: lines 101-113 up to the await; the buffer is not looked at
LinesReadDone ==
    /\ pc = "read" /\ rest = <<>>
    /\ received' = TRUE
    /\ ledger' = Append(ledger, SuccessEntry(idx, extractedCount, reportDate))
    /\ pc' = "recordSuccess"
    /\ UNCHANGED <<fileList, idx, text, rest, buffer, extractedCount, reportDate,
                   extracted, scanned, sent, inflight, fileStatuses, isLoading,
                   view, error, autoSave, recorded,
                   harnessVars>>

NextLines ==
    \/ \E fl \in Batches : Upload(fl)
    \/ ExtractFail
    \/ pc = "extract" /\ \E t \in TextsFor(fileList) : ExtractOk(t)
    \/ \E n \in 1..Len(rest) : LinesReadChunk(n)
    \/ ReadError
    \/ LinesReadDone
    \/ RecordSuccessOk
    \/ RecordSuccessReject
    \/ RecordFailedOk
    \/ RecordFailedReject
    \/ \E f \in 1..MaxFiles : SaveSettle(f)

SpecLines == Init /\ [][NextLines]_vars

(***************************************************************************)
(* start.sh App: handleUpload takes one file, scans every read for         *)
(* balanced braces, shows each parsed fragment and saves it when autoSave  *)
(* is set.  extracted is the data state.                                   *)
(***************************************************************************)
InitBrace ==
    /\ AnalyzerIdle
    /\ fileList = <<>> /\ idx = 0 /\ pc = "idle"
    /\ text = NoText /\ rest = <<>> /\ buffer = <<>>
    /\ extractedCount = 0 /\ reportDate = NoDate
    /\ extracted = <<>> /\ scanned = FALSE
    /\ sent = <<>> /\ inflight = [f \in 1..MaxFiles |-> 0] /\ ledger = <<>>
    /\ recorded = <<>>
    /\ fileStatuses = <<>> /\ isLoading = FALSE /\ view = "extract"
    /\ error = FALSE /\ autoSave = TRUE /\ received = FALSE
    /\ val = Undefined /\ verdict = "none"

\* the autoSave checkbox, line 214
SetAutoSave(checked) ==
    /\ pc = "idle"
    /\ autoSave' = checked
    /\ UNCHANGED <<fileList, idx, pc, text, rest, buffer, extractedCount, reportDate,
                   extracted, scanned, sent, inflight, ledger, fileStatuses,
                   isLoading, view, error, received, recorded,
                   harnessVars>>

\* lines 107-118
BraceUpload(name) ==
    /\ pc = "idle" /\ fileList = <<>>
    /\ fileList' = <<name>>
    /\ idx' = 1
    /\ isLoading' = TRUE
    /\ error' = FALSE
    /\ extracted' = <<>>
    /\ pc' = "extract"
    /\ UNCHANGED <<text, rest, buffer, extractedCount, reportDate, scanned, sent,
                   inflight, ledger, fileStatuses, view, autoSave, received, recorded,
                   harnessVars>>

\* the fetch rejects or is not OK: lines 170-175
BraceExtractFail ==
    /\ pc = "extract"
    /\ error' = TRUE
    /\ isLoading' = FALSE
    /\ pc' = "finished"
    /\ UNCHANGED <<fileList, idx, text, rest, buffer, extractedCount, reportDate,
                   extracted, scanned, sent, inflight, ledger, fileStatuses, view,
                   autoSave, received, recorded,
                   harnessVars>>

\* lines 124-126
BraceExtractOk(t) ==
    /\ pc = "extract"
    /\ text' = t
    /\ rest' = Render(t)
    /\ buffer' = <<>>
    /\ pc' = "read"
    /\ received' = FALSE
    /\ UNCHANGED <<fileList, idx, extractedCount, reportDate, extracted, scanned,
                   sent, inflight, ledger, fileStatuses, isLoading, view, error,
                   autoSave, recorded,
                   harnessVars>>

\* a read that scans the new chunk alone, the unfinished fragment forgotten
BraceReadChunk_ChunkAlone(n) ==
    /\ pc = "read"
    /\ n \in ChunkSizes(rest)
    /\ LET out == BraceScan(Take(rest, n), 1, 0, -1, <<>>)
           saved == IF autoSave THEN out.items ELSE <<>>
       IN  /\ buffer' = out.buffer
           /\ extracted' = extracted \o out.items
           /\ sent' = sent \o SaveRequests(idx, saved)
           /\ inflight' = [inflight EXCEPT ![idx] = @ + Len(saved)]
    /\ rest' = Drop(rest, n)
    /\ UNCHANGED <<fileList, idx, pc, text, extractedCount, reportDate, scanned,
                   ledger, fileStatuses, isLoading, view, error, autoSave,
                   received, recorded,
                   harnessVars>>

\* lines 129-167: one read and the scan of the buffer
BraceReadChunk(n) ==
    /\ pc = "read"
    /\ n \in ChunkSizes(rest)
    /\ LET out == BraceScan(buffer \o Take(rest, n), 1, 0, -1, <<>>)
           saved == IF autoSave THEN out.items ELSE <<>>
       IN  /\ buffer' = out.buffer
           /\ extracted' = extracted \o out.items
           /\ sent' = sent \o SaveRequests(idx, saved)
           /\ inflight' = [inflight EXCEPT ![idx] = @ + Len(saved)]
    /\ rest' = Drop(rest, n)
    /\ UNCHANGED <<fileList, idx, pc, text, extractedCount, reportDate, scanned,
                   ledger, fileStatuses, isLoading, view, error, autoSave,
                   received, recorded,
                   harnessVars>>

\* line 130 and the finally of line 173
BraceReadDone ==
    /\ pc = "read" /\ rest = <<>>
    /\ received' = TRUE
    /\ isLoading' = FALSE
    /\ pc' = "finished"
    /\ buffer' = <<>>
    /\ UNCHANGED <<fileList, idx, text, rest, extractedCount, reportDate,
                   extracted, scanned, sent, inflight, ledger, fileStatuses, view,
                   error, autoSave, recorded,
                   harnessVars>>

\* reader.read() rejects: lines 170-175
BraceReadError ==
    /\ pc = "read"
    /\ error' = TRUE
    /\ isLoading' = FALSE
    /\ pc' = "finished"
    /\ rest' = <<>> /\ buffer' = <<>>
    /\ UNCHANGED <<fileList, idx, text, extractedCount, reportDate,
                   extracted, scanned, sent, inflight, ledger, fileStatuses, view,
                   autoSave, received, recorded,
                   harnessVars>>

NextBrace ==
    \/ \E b \in BOOLEAN : SetAutoSave(b)
    \/ \E name \in FileNames : BraceUpload(name)
    \/ BraceExtractFail
    \/ pc = "extract" /\ \E t \in Texts : BraceExtractOk(t)
    \/ \E n \in 1..Len(rest) : BraceReadChunk(n)
    \/ BraceReadDone
    \/ BraceReadError
    \/ \E f \in 1..MaxFiles : SaveSettle(f)

SpecBrace == InitBrace /\ [][NextBrace]_vars

(***************************************************************************)
(* Validator harness: one value from a bounded set is put through the      *)
(* value check.                                                            *)
(***************************************************************************)
ValueChars == {"4", ".", "-", "e", "a", " "}

ValueSet ==
    {Undefined, Null, True}
    \cup {Num(<<"4",".","2">>), Num(<<"4">>), Num(<<"-","4">>), Num(<<"0">>)}
    \cup {Str(s) : s \in SeqsUpTo(ValueChars, MaxValLen)}
    \cup {Str(w) : w \in allowedNonNumeric}
    \cup {Str(toUpperCase(w)) : w \in allowedNonNumeric}
    \cup {Str(Capitalize(w)) : w \in allowedNonNumeric}
    \cup {Str(<<"n","u","l","l">>), Str(<<"N","U","L","L">>),
          Str(<<"4",".","2">>), Str(<<"h","i","g","h">>),
          Str(<<"4",".","2"," ","m","g">>), Str(<<"t","r","u","e">>)}

InitValidator ==
    /\ AnalyzerIdle
    /\ val \in ValueSet
    /\ verdict = "none"
    /\ fileList = <<>> /\ idx = 0 /\ pc = "harness" /\ text = NoText /\ rest = <<>>
    /\ buffer = <<>> /\ extractedCount = 0 /\ reportDate = NoDate
    /\ extracted = <<>> /\ scanned = FALSE /\ sent = <<>>
    /\ inflight = [f \in 1..MaxFiles |-> 0] /\ ledger = <<>> /\ recorded = <<>>
    /\ fileStatuses = <<>> /\ isLoading = FALSE /\ view = "upload"
    /\ error = FALSE /\ autoSave = TRUE /\ received = FALSE

Validate ==
    /\ verdict = "none"
    /\ verdict' = IF is_acceptable(val) THEN "accept" ELSE "reject"
    /\ UNCHANGED <<val, pipeVars, uploadVars, analyzerVars>>

NextValidator == Validate

SpecValidator == InitValidator /\ [][NextValidator]_vars

(***************************************************************************)
(* Range harness: one reference range from a bounded set is parsed.       *)
(***************************************************************************)
RangeChars == {"1", "5", ".", "-", "<", ">", " ", "a"}

RangeSet ==
    {Undefined, Null}
    \cup {Str(s) : s \in SeqsUpTo(RangeChars, MaxRangeLen)}
    \cup {Str(<<"1","3",".","5","-","1","7",".","5">>), Str(<<"<"," ","2","0","0">>), Str(<<">"," ","5","0">>), Str(<<"a","b","n","o","r","m","a","l">>), Str(<<"r","e","f","."," ","<"," ","2","0","0">>), Str(<<"1","3",".","5"," ","-"," ","1","7",".","5">>)}

PipelineUnused ==
    /\ fileList = <<>> /\ idx = 0 /\ pc = "harness" /\ text = NoText /\ rest = <<>>
    /\ buffer = <<>> /\ extractedCount = 0 /\ reportDate = NoDate
    /\ extracted = <<>> /\ scanned = FALSE /\ sent = <<>>
    /\ inflight = [f \in 1..MaxFiles |-> 0] /\ ledger = <<>> /\ recorded = <<>>
    /\ fileStatuses = <<>> /\ isLoading = FALSE /\ view = "upload"
    /\ error = FALSE /\ autoSave = TRUE /\ received = FALSE
    /\ val = Undefined /\ verdict = "none"
    /\ NoUploads

InitRange ==
    /\ PipelineUnused
    /\ rangeStr \in RangeSet
    /\ refBounds = Bounds(NotRun, NotRun)
    /\ TrendViewInitial /\ lenientDates = FALSE
    /\ store = <<>>
    /\ DashboardInitial /\ now = 20240229
    /\ NormalizerIdle

ParseRange ==
    /\ refBounds = Bounds(NotRun, NotRun)
    /\ refBounds' = parseReferenceRange(rangeStr)
    /\ UNCHANGED <<rangeStr, pipeVars, uploadVars, val, verdict, trendVars, dashVars, normVars>>

NextRange == ParseRange

SpecRange == InitRange /\ [][NextRange]_vars

(***************************************************************************)
(* Trend harness: a mounted TrendView receives a bounded history.         *)
(***************************************************************************)
TrendNames == {"Hb", "TSH"}

TrendRecords ==
    {Metric(n, v, Null, d) : n \in TrendNames,
                             v \in {Str(<<"5">>), Num(<<"0">>), Null},
                             d \in {Str(<<"2","0","2","2","-","0","6","-","0","1">>), Null}}
    \cup {Metric("", Str(<<"5">>), Null, Str(<<"2","0","2","2","-","0","6","-","0","1">>))}

TrendData == SeqsUpTo(TrendRecords, MaxMetrics)

InitTrend ==
    /\ PipelineUnused
    /\ RangeIdle
    /\ TrendViewInitial /\ lenientDates \in BOOLEAN
    /\ store = <<>>
    /\ DashboardInitial /\ now = 20240229
    /\ NormalizerIdle

NextTrend ==
    \/ loading /\ \E data \in TrendData : FetchMetricsOk(data)
    \/ FetchMetricsFail
    \/ \E t \in TrendNames : SelectTest(t)

SpecTrend == InitTrend /\ [][NextTrend]_vars

(***************************************************************************)
(* Selector harness: /metrics answers with two TSH readings followed by a  *)
(* bounded history, so that more than one test can be eligible.            *)
(***************************************************************************)
TwoReadings ==
    << Metric("TSH", Str(<<"5">>), Null, Str(<<"2","0","2","1","-","0","3","-","0","5">>)),
       Metric("TSH", Str(<<"5">>), Null, Str(<<"2","0","2","2","-","0","6","-","0","1">>)) >>

SelectorData == {TwoReadings \o d : d \in TrendData}

NextSelector ==
    \/ loading /\ \E data \in SelectorData : FetchMetricsOk(data)
    \/ FetchMetricsFail
    \/ \E t \in TrendNames : SelectTest(t)

SpecSelector == InitTrend /\ [][NextSelector]_vars

(***************************************************************************)
(* The chart of one test: /metrics answers with up to MaxMetrics records   *)
(* whose report dates are ISO dates, dates of the forms left to the        *)
(* implementation, and a text no browser reads as a date.                  *)
(***************************************************************************)
ChartDates ==
    {<<"2","0","2","1","-","0","3","-","0","5">>, <<"2","0","2","2","-","0","6","-","0","1">>,
     <<"0","1","/","J","u","n","/","2","0","2","2">>, <<"2","0","2","2","/","0","1","/","1","5">>,
     <<"n","/","a">>}

ChartRecords ==
    {Metric("Hb", Str(<<"5">>), Null, Str(d)) : d \in ChartDates}
    \cup {Metric("TSH", Str(<<"5">>), Null, Str(<<"2","0","2","2","-","0","6","-","0","1">>))}

ChartInputs == SeqsUpTo(ChartRecords, MaxMetrics)

InitChart ==
    /\ PipelineUnused
    /\ RangeIdle
    /\ TrendViewInitial /\ lenientDates \in BOOLEAN
    /\ store = <<>>
    /\ DashboardInitial /\ now = 20240229
    /\ NormalizerIdle

NextChart ==
    \/ loading /\ \E data \in ChartInputs : FetchMetricsOk(data)
    \/ FetchMetricsFail
    \/ \E t \in TrendNames : SelectTest(t)

SpecChart == InitChart /\ [][NextChart]_vars

(***************************************************************************)
(* Alert harness: the store holds a bounded history and a Dashboard is    *)
(* mounted.                                                                *)
(***************************************************************************)
AlertValues == {Str(<<"2","2","0">>), Str(<<"3","0">>), Str(<<"1","0","0">>), Str(<<"-","5">>)}
AlertRanges == {Str(<<"0","-","2","0","0">>), Str(<<"5","0","-","1","5","0">>), Str(<<">"," ","5","0">>), Null}
AlertDates == {Str(<<"2","0","2","1","-","0","3","-","0","5">>), Str(<<"2","0","2","2","-","0","6","-","0","1">>)}

AlertRecords ==
    {Metric("Hb", v, r, d) : v \in AlertValues, r \in AlertRanges, d \in AlertDates}
    \cup {Metric("TSH", v, Str(<<"0","-","2","0","0">>), Str(<<"2","0","2","2","-","0","6","-","0","1">>)) : v \in {Str(<<"2","2","0">>), Str(<<"1","0","0">>)}}

AlertNames == {"Hb", "TSH"}

InitAlerts ==
    /\ PipelineUnused
    /\ RangeIdle
    /\ TrendViewInitial /\ lenientDates = FALSE
    /\ store \in SeqsUpTo(AlertRecords, MaxHistory)
    /\ DashboardInitial /\ now = 20240229
    /\ NormalizerIdle

NextAlerts ==
    \/ FetchAlertsOk
    \/ FetchAlertsFail

SpecAlerts == InitAlerts /\ [][NextAlerts]_vars

(***************************************************************************)
(* Dashboard harness: /alerts answers with up to MaxAlerts alerts, of      *)
(* tests of several categories and of none, with deviations of which 0 is  *)
(* the unavailable one, and with report dates that are old, recent, in the *)
(* future, absent or no date at all, on one of the days of Today.          *)
(***************************************************************************)
Alert(n, dev, d) ==
    [test_name |-> n, value |-> Str(<<"2","2","0">>),
     reference_range |-> Str(<<"0","-","2","0","0">>), report_date |-> d,
     status |-> "high", deviation |-> dev]

DashboardAlerts ==
    {Alert(n, dev, Str(<<"2","0","2","1","-","0","3","-","0","5">>)) :
        n \in TestNames, dev \in {0, 5, 12}}
    \cup {Alert("Hb", 5, d) : d \in {Str(<<"2","0","2","3","-","0","3","-","0","1">>), Str(<<"2","0","2","2","/","0","1","/","1","5">>), Str(<<"n","/","a">>), Null}}

Today == {20220305, 20240228, 20240229, 20250228}

InitDashboard ==
    /\ PipelineUnused
    /\ RangeIdle
    /\ TrendViewInitial /\ lenientDates = FALSE
    /\ store = <<>>
    /\ DashboardInitial /\ now \in Today
    /\ NormalizerIdle

NextDashboard ==
    \/ dashLoading /\ \E data \in SeqsUpTo(DashboardAlerts, MaxAlerts) : ReceiveAlerts(data)
    \/ FetchAlertsFail
    \/ \E k \in 1..Len(METRIC_CATEGORIES) : toggleCategory(METRIC_CATEGORIES[k].name)

SpecDashboard == InitDashboard /\ [][NextDashboard]_vars

(***************************************************************************)
(* Normalizer harness: one raw record from a bounded set is normalized,   *)
(* and the result is normalized again.                                     *)
(***************************************************************************)
NormRangeChars == {"2", "0", ".", "<", "-", " ", "m"}

NormRanges ==
    {Null}
    \cup {Str(s) : s \in SeqsUpTo(NormRangeChars, MaxRangeLen)}
    \cup {Str(<<"<","2","0","0",".","0","0"," ","m","g","/","d","L">>), Str(<<"1","3",".","5","0"," ","-"," ","1","7",".","5","0">>), Str(<<"a","b","n","o","r","m","a","l">>)}

RawRecords ==
    {Rec(n, Absent, Number(52, 10), u, r, Str(<<"2","0","2","2","-","0","6","-","0","1">>)) :
        n \in {"Vitamin D Total", "Vitamin D", "Cholesterol", "Hb"},
        u \in {"mg/dl", "mmol/l", "mmol/L", Absent},
        r \in NormRanges}

InitNormalizer ==
    /\ PipelineUnused
    /\ RangeIdle
    /\ TrendViewInitial /\ lenientDates = FALSE
    /\ store = <<>>
    /\ DashboardInitial /\ now = 20240229
    /\ normRec \in RawRecords /\ normPrev = NoRecord /\ normCount = 0

\* one pass of the three transforms over the record
NormalizePass ==
    /\ normCount < 2
    /\ normPrev' = normRec
    /\ normRec' = NormalizeRecord(normRec)
    /\ normCount' = normCount + 1
    /\ UNCHANGED <<pipeVars, uploadVars, val, verdict, rangeStr, refBounds, trendVars, dashVars>>

NextNormalizer == NormalizePass

SpecNormalizer == InitNormalizer /\ [][NextNormalizer]_vars

(***************************************************************************)
(* Store harness: raw records from a bounded set are saved one by one.    *)
(***************************************************************************)
SavedDates == {Str(<<"2","0","2","1","-","0","3","-","0","5">>), Str(<<"0","1","/","J","u","n","/","2","0","2","2">>), Str(<<"2","0","2","3","-","0","2","-","1","0">>)}

SavedRecords ==
    {Rec(n, Absent, Number(18, 1), Absent, r, d) :
        n \in {"Vitamin D Total", "25-OH Vitamin D", "Hb"},
        r \in {Null, Str(<<"3","0","-","1","0","0">>)},
        d \in SavedDates}
    \cup {Rec("Vitamin D Total", Absent, Number(18, 1), Absent, Str(<<"2","0"," ","-"," ","5","0"," ","n","g","/","m","L">>), Str(<<"0","1","/","J","u","n","/","2","0","2","2">>))}

InitStore ==
    /\ PipelineUnused
    /\ AnalyzerIdle

NextStore == Len(store) < MaxStore /\ \E raw \in SavedRecords : SaveRecord(raw)

SpecStore == InitStore /\ [][NextStore]_vars

(***************************************************************************)
(* The upload component (src/unnamed/part_001 lines 95-217) in front of    *)
(* App.jsx's handleUpload.  A file is its name, a sequence of characters.  *)
(* Every call of handleUpload that reaches processFile is a run; what one  *)
(* run does between two awaits is one step, and steps of different runs    *)
(* interleave.  Of processFile only its awaits are kept: the /extract      *)
(* request with the read of its stream, and the ledger request.            *)
(***************************************************************************)
MaxUploads == 2     \* calls of onUpload in one behaviour

LowerPdf == <<"a", ".", "p", "d", "f">>
UpperPdf == <<"B", ".", "P", "D", "F">>
TextFile == <<"n", ".", "t", "x", "t">>

\* String.prototype.endsWith
endsWith(s, suffix) ==
    /\ Len(s) >= Len(suffix)
    /\ SubSeq(s, Len(s) - Len(suffix) + 1, Len(s)) = suffix

\* name.toLowerCase().endsWith('.pdf'), lines 130 and 152
IsPdfName(name) == endsWith(toLowerCase(name), <<".", "p", "d", "f">>)

\* a FileSystemEntry: a file, or a directory with what readEntries gives
FileEntry(name) == [isFile |-> TRUE, name |-> name, children |-> <<>>]
DirEntry(children) == [isFile |-> FALSE, name |-> <<"d">>, children |-> children]

\* lines 126-147: the breadth-first traversal of the dropped entries
RECURSIVE Traverse(_, _)
Traverse(queue, files) ==
    IF queue = <<>> THEN files
    ELSE LET entry == Head(queue)
         IN  IF entry.isFile
             THEN Traverse(Tail(queue),
                           IF IsPdfName(entry.name) THEN Append(files, entry.name)
                           ELSE files)
             ELSE Traverse(Tail(queue) \o entry.children, files)

\* App.jsx lines 23-42, up to the first await of processFile (line 56); with
\* no file the loop of line 36 is empty and the call runs to its end.
handleUpload(fl) ==
    /\ uploads' = Append(uploads, fl)
    /\ error' = FALSE
    /\ IF fl = <<>>
       THEN /\ fileStatuses' = <<>>
            /\ isLoading' = FALSE
            /\ view' = "history"
            /\ UNCHANGED runs
       ELSE /\ fileStatuses' =
                SetStatus([i \in 1..Len(fl) |-> [name |-> fl[i], status |-> "pending"]],
                          fl[1], "processing")
            /\ isLoading' = TRUE
            /\ runs' = Append(runs, [files |-> fl, idx |-> 1, pc |-> "extracting"])
            /\ UNCHANGED view
    /\ UNCHANGED <<fileList, idx, pc, text, rest, buffer, extractedCount, reportDate,
                   extracted, scanned, sent, inflight, ledger, recorded, autoSave,
                   received, val, verdict, analyzerVars>>

\* part_001 lines 156-161: either input (both disabled while isLoading)
\* changed; the file input asks for .pdf, the folder input for nothing.
handleChange(fl) ==
    /\ view = "upload" /\ ~isLoading
    /\ Len(uploads) < MaxUploads
    /\ Len(fl) > 0
    /\ handleUpload(fl)

\* part_001 lines 108-149: a drop where dataTransfer.items is there
handleDrop(items) ==
    /\ view = "upload"
    /\ Len(uploads) < MaxUploads
    /\ LET files == Traverse(items, <<>>)
       IN  /\ Len(files) > 0
           /\ handleUpload(files)

\* part_001 lines 150-153: a drop without dataTransfer.items
handleDropFallback(fl) ==
    /\ view = "upload"
    /\ Len(uploads) < MaxUploads
    /\ Len(fl) > 0
    /\ handleUpload(SelectSeq(fl, IsPdfName))

\* App.jsx lines 236-263: a navigation button
setView(v) ==
    /\ pc = "harness"
    /\ v # view
    /\ view' = v
    /\ UNCHANGED <<fileList, idx, pc, text, rest, buffer, extractedCount, reportDate,
                   extracted, scanned, sent, inflight, ledger, recorded, fileStatuses,
                   isLoading, error, autoSave, received, harnessVars>>

\* /extract has answered and its stream is read to the end (ok), or the
\* request or a read failed: the ledger request of line 165 or 189 is sent.
RunExtractSettle(r, ok) ==
    /\ r \in 1..Len(runs)
    /\ runs[r].pc = "extracting"
    /\ runs' = [runs EXCEPT ![r].pc = IF ok THEN "recordSuccess" ELSE "recordFailed"]
    /\ UNCHANGED <<pipeVars, uploads, val, verdict, analyzerVars>>

\* processFile returned in run r with the status st set (line 180 or 201):
\* the loop of line 36 takes the run's next file, or lines 40-41 end the run
RunFileDone(r, st) ==
    LET run == runs[r]
        fs == SetStatus(fileStatuses, run.files[run.idx], st)
    IN  IF run.idx < Len(run.files)
        THEN /\ runs' = [runs EXCEPT ![r] = [run EXCEPT !.idx = run.idx + 1,
                                                        !.pc = "extracting"]]
             /\ fileStatuses' = SetStatus(fs, run.files[run.idx + 1], "processing")
             /\ UNCHANGED <<isLoading, view>>
        ELSE /\ runs' = [runs EXCEPT ![r].pc = "finished"]
             /\ fileStatuses' = fs
             /\ isLoading' = FALSE
             /\ view' = "history"

\* the ledger request of run r settles: answered (ok) or rejected.  The
\* Success request rejecting is caught by line 185, the Failed one by nobody.
RunRecordSettle(r, ok) ==
    /\ r \in 1..Len(runs)
    /\ runs[r].pc \in {"recordSuccess", "recordFailed"}
    /\ IF ok
       THEN RunFileDone(r, IF runs[r].pc = "recordSuccess" THEN "complete" ELSE "error")
       ELSE /\ runs' = [runs EXCEPT ![r].pc = IF runs[r].pc = "recordSuccess"
                                               THEN "recordFailed" ELSE "rejected"]
            /\ UNCHANGED <<fileStatuses, isLoading, view>>
    /\ UNCHANGED <<fileList, idx, pc, text, rest, buffer, extractedCount, reportDate,
                   extracted, scanned, sent, inflight, ledger, recorded, error,
                   autoSave, received, uploads, val, verdict, analyzerVars>>

\* what the user picks or drops
ChosenNames == {LowerPdf, UpperPdf, TextFile}
ChosenLists == SeqsUpTo(ChosenNames, 2) \ {<<>>}
DroppedItems ==
    { <<FileEntry(LowerPdf)>>,
      <<FileEntry(TextFile)>>,
      <<DirEntry(<<FileEntry(TextFile), FileEntry(UpperPdf)>>)>>,
      <<DirEntry(<<DirEntry(<<FileEntry(LowerPdf)>>), FileEntry(TextFile)>>),
        FileEntry(UpperPdf)>>,
      <<DirEntry(<<>>)>>,
      <<>> }

InitUploads ==
    /\ AnalyzerIdle
    /\ PipelineUnused

NextUploads ==
    \/ \E fl \in ChosenLists : handleChange(fl)
    \/ \E items \in DroppedItems : handleDrop(items)
    \/ \E fl \in ChosenLists : handleDropFallback(fl)
    \/ \E v \in {"upload", "history"} : setView(v)
    \/ \E r \in 1..MaxUploads, ok \in BOOLEAN : RunExtractSettle(r, ok)
    \/ \E r \in 1..MaxUploads, ok \in BOOLEAN : RunRecordSettle(r, ok)

SpecUploads == InitUploads /\ [][NextUploads]_vars

(***************************************************************************)
(* C2.  The value check as the specification states it: a string counts    *)
(* as numeric only when the whole of it is a floating-point literal.       *)
(***************************************************************************)
RECURSIVE SkipDigits(_, _)
SkipDigits(s, i) ==
    IF i <= Len(s) /\ s[i] \in Digits THEN SkipDigits(s, i + 1) ELSE i

IsFloatLiteral(s) ==
    LET t  == TrimTrailing(SkipLeading(s, WhiteSpace))
        i0 == IF t # <<>> /\ t[1] \in {"+", "-"} THEN 2 ELSE 1
        i1 == SkipDigits(t, i0)
        dot == i1 <= Len(t) /\ t[i1] = "."
        i2 == IF dot THEN SkipDigits(t, i1 + 1) ELSE i1
        mantissa == i1 > i0 \/ (dot /\ i2 > i1 + 1)
        hasExp == i2 <= Len(t) /\ t[i2] \in {"e", "E"}
        i3 == IF hasExp /\ i2 + 1 <= Len(t) /\ t[i2 + 1] \in {"+", "-"}
              THEN i2 + 2 ELSE i2 + 1
        i4 == IF hasExp THEN SkipDigits(t, i3) ELSE i2
    IN  /\ mantissa
        /\ hasExp => i4 > i3
        /\ i4 = Len(t) + 1

SpecifiedAcceptable(v) ==
    /\ v.k \notin {"null", "undefined"}
    /\ v # Str(<<>>)
    /\ v # Str(<<"n","u","l","l">>)
    /\ \/ v.k = "number"
       \/ v.k = "string" /\ IsFloatLiteral(v.s)
       \/ toLowerCase(v.s) \in allowedNonNumeric

\* C2: the value check rejects an absent, empty or "null" value, accepts a
\* number or a string that is a floating-point number, and otherwise accepts
\* exactly the nine categorical tokens in any letter case; every other
\* non-numeric string is rejected.
C2_ValueCheckAsSpecified ==
    verdict # "none" => (verdict = "accept" <=> SpecifiedAcceptable(val))

(***************************************************************************)
(* Claims about the pipeline                                               *)
(***************************************************************************)
Items(reqs) == [i \in 1..Len(reqs) |-> reqs[i].item]

\* the save requests issued for file i, in order
SentFor(i) == Items(SelectSeq(sent, LAMBDA r : r.file = i))

\* the ledger requests issued for file i, in order
LedgerFor(i) == SelectSeq(ledger, LAMBDA e : e.file = i)

\* the record objects the streamed text was written from, in source order
Truth(t) ==
    LET recs == SelectSeq(t.frags, LAMBDA f : f \in RecordFrags)
    IN  [i \in 1..Len(recs) |-> FragRecord[recs[i]]]

\* C1: on every ingestion path a save request is issued only for a record
\* whose value passed the value check: no record with an absent, empty,
\* "null" or unrecognised non-numeric value has been sent to the store.
C1_OnlyValidatedSaved ==
    \A i \in 1..Len(sent) : is_acceptable(ValueOf(sent[i].item))

\* C3: once a text is read to its end, the parser has emitted exactly the
\* record objects the text contains, each once, in source order.
C3_ParserExact ==
    (received /\ pc \in {"recordSuccess", "finished"}) => extracted = Truth(text)

Occurs(x, seq) == \E i \in 1..Len(seq) : seq[i] = x

\* C4: in the brace-matched scan a fragment that does not parse, or an
\* unbalanced or stray brace, never stops extraction: every record object
\* that comes after it in the text is still emitted.
C4_BadFragmentNeverStopsScan ==
    (pc = "finished" /\ received)
        => \A i, j \in 1..Len(text.frags) :
              (i < j /\ text.frags[i] \notin RecordFrags /\ text.frags[j] \in RecordFrags)
                  => Occurs(FragRecord[text.frags[j]], extracted)

\* C5: the documents of a batch are processed one at a time, and when the
\* processing of a document begins every save request of the documents
\* before it has completed.
C5_EarlierDocumentsStored ==
    \A f \in 1..MaxFiles : f < idx => inflight[f] = 0

\* C6: a document whose processing fails is marked and recorded as failed
\* and the batch goes on: whenever handleUpload has stopped, every document
\* of the batch has been processed to a final status and has a ledger entry.
C6_DocumentFailureStaysLocal ==
    pc \in {"finished", "rejected"}
        => \A i \in 1..Len(fileList) :
              /\ fileStatuses[i].status \in {"complete", "error"}
              /\ LedgerFor(i) # <<>>

\* C7: a failure inside one fragment or record never fails the document:
\* once the text of a document has been received, the first ledger request
\* for it reports Success, with the count of the records that were kept.
C7_FragmentFailureStaysLocal ==
    (received /\ LedgerFor(idx) # <<>>)
        => /\ LedgerFor(idx)[1].status = "Success"
           /\ LedgerFor(idx)[1].data_points_extracted = Len(SentFor(idx))

\* the objects of an array text whose fragments are all JSON objects
ObjectFrags == RecordFrags \cup {"oF"}
FragObject(f) == IF f \in RecordFrags THEN FragRecord[f] ELSE EmptyObj
IsArrayOfObjects(t) ==
    /\ t.layout = "array"
    /\ t.frags # <<>>
    /\ \A i \in 1..Len(t.frags) : t.frags[i] \in ObjectFrags
\* a non-empty array text whose elements are all JSON values
IsNonEmptyArray(t) ==
    /\ t.layout = "array"
    /\ t.frags # <<>>
    /\ \A i \in 1..Len(t.frags) : t.frags[i] \in ObjectFrags \cup {"nul", "num"}

\* C8: when the whole trimmed text is a JSON array of objects, every element
\* is emitted exactly once in array order and the object scan is not applied
\* to the text; the object scan runs only when the array attempt yielded
\* nothing.
C8_ArrayTakesPrecedence ==
    pc = "recordSuccess"
        => /\ IsArrayOfObjects(text)
                => /\ extracted = [i \in 1..Len(text.frags) |-> FragObject(text.frags[i])]
                   /\ ~ scanned
           /\ scanned => ~ IsNonEmptyArray(text)

C8_Witness ==
    /\ pc = "recordSuccess"
    /\ IsArrayOfObjects(text)
    /\ Len(text.frags) = 2
    /\ Len(extracted) = 2
    /\ ~ scanned

\* what the reader has delivered of the current text
Consumed == Take(Render(text), Len(Render(text)) - Len(rest))

\* the values of the newline-terminated lines of s that are valid JSON
ValidLineValues(s) ==
    LET lines == split(s)
        done == Take(lines, Len(lines) - 1)
        valid == SelectSeq(done, LAMBDA l : JSONparse(l).ok)
    IN  [i \in 1..Len(valid) |-> JSONparse(valid[i]).val]

NonNull(vs) == SelectSeq(vs, LAMBDA v : v.t # "null")

\* C9 as stated: in line-delimited streaming, however the stream is cut into
\* reads, every newline-terminated line that is valid JSON is emitted
\* exactly once and in order.
C9_EveryValidLineEmitted ==
    pc = "read" => extracted = ValidLineValues(Consumed)

\* C9 as amended: however the stream is cut into reads, every
\* newline-terminated line that is valid JSON other than the bare literal
\* null is emitted exactly once and in order, a line cut by a read boundary
\* being held until its newline arrives; blank and unparsable lines are
\* skipped, and nothing else is emitted but null lines.
C9_EveryNonNullLineEmitted ==
    pc = "read"
        => /\ NonNull(extracted) = NonNull(ValidLineValues(Consumed))
           /\ Len(extracted) <= Len(ValidLineValues(Consumed))

C9_Witness ==
    /\ pc = "read"
    /\ text = [layout |-> "lines", frags |-> <<"oA", "oB">>]
    /\ buffer = <<"{", "B">>
    /\ extracted = <<Body["A"]>>

\* the date of the first record of rs that passes the value check and has one
RECURSIVE FirstValidatedDate(_)
FirstValidatedDate(rs) ==
    IF rs = <<>> THEN NoDate
    ELSE IF is_acceptable(ValueOf(Head(rs))) /\ ReportDateOf(Head(rs)) # Absent
    THEN ReportDateOf(Head(rs))
    ELSE FirstValidatedDate(Tail(rs))

DateOrNone(d) == IF d = Absent THEN NoDate ELSE d

\* C10: every ledger request carries, for its document, the number of
\* records handed to the store as data_points_extracted and the report_date
\* of the first validated record that has one, or no date.
C10_LedgerMatchesStore ==
    \A k \in 1..Len(ledger) :
        /\ ledger[k].data_points_extracted = Len(SentFor(ledger[k].file))
        /\ DateOrNone(ledger[k].report_date) = FirstValidatedDate(SentFor(ledger[k].file))

(***************************************************************************)
(* C11: the end-to-end scenario                                            *)
(***************************************************************************)
\* C11: for the text made of the 25-OH Vitamin D object (value "18", report
\* date 01/Jun/2022), a newline and the Vitamin D Total object (value null),
\* both objects are extracted, exactly one save request is issued (the
\* first object), the second is dropped by the value check, and the count
\* reported to the ledger is 1.
C11_EndToEnd ==
    (text = EndToEndText /\ pc = "recordSuccess") =>
        /\ extracted = <<Body["D"], Body["T"]>>
        /\ SentFor(idx) = <<Body["D"]>>
        /\ extractedCount = 1
        /\ LedgerFor(idx) = <<SuccessEntry(idx, 1, "01/Jun/2022")>>

C11_Witness ==
    /\ text = EndToEndText /\ pc = "recordSuccess"
    /\ Len(SentFor(idx)) = 1

(***************************************************************************)
(* C12: reference-range parsing                                            *)
(***************************************************************************)
\* an unsigned decimal number: digits, a point, digits (either part optional)
IsPlainNumber(s) ==
    /\ s # <<>>
    /\ \A i \in 1..Len(s) : RangeChar(s[i])
    /\ Cardinality({i \in 1..Len(s) : s[i] = "."}) <= 1
    /\ \E i \in 1..Len(s) : s[i] \in Digits

\* s is the number a, optional white space, a dash, optional white space and
\* the number b
IsDashPair(s, a, b) ==
    \E w1, w2 \in SeqsUpTo({" "}, 1) : s = a \o w1 \o <<"-">> \o w2 \o b

\* s is the sign c, optional white space and the number b
IsSignForm(s, c, b) == \E w \in SeqsUpTo({" "}, 1) : s = <<c>> \o w \o b

NumbersIn(s) ==
    {SubSeq(s, i, j) : i \in 1..Len(s), j \in 1..Len(s)} \ {<<>>}

FiniteOrNull(x) == x.k \in {"null", "num"}

\* C12: parseReferenceRange maps two numbers separated by a dash to {min, max}
\* ("13.5-17.5" to 13.5 and 17.5), '<' and a number to {0, max} ("< 200" to 0
\* and 200), '>' and a number to {min, null} ("> 50" to 50 and null), every
\* string with no digit and an absent range to {null, null}; each bound it
\* returns is null or a finite number.
C12_RangeParsing ==
    refBounds # Bounds(NotRun, NotRun) =>
        LET s == IF rangeStr.k = "string" THEN rangeStr.s ELSE <<>>
            nums == {t \in NumbersIn(s) : IsPlainNumber(t)}
        IN  /\ FiniteOrNull(refBounds.min) /\ FiniteOrNull(refBounds.max)
            /\ rangeStr.k # "string" => refBounds = Bounds(NullNum, NullNum)
            /\ \A a, b \in nums : IsDashPair(s, a, b) =>
                   refBounds = Bounds(parseFloat(a), parseFloat(b))
            /\ \A b \in nums : IsSignForm(s, "<", b) =>
                   refBounds = Bounds(Number(0, 1), parseFloat(b))
            /\ \A b \in nums : IsSignForm(s, ">", b) =>
                   refBounds = Bounds(parseFloat(b), NullNum)
            /\ (\A i \in 1..Len(s) : s[i] \notin Digits) =>
                   refBounds = Bounds(NullNum, NullNum)
            /\ rangeStr = Str(<<"1","3",".","5","-","1","7",".","5">>) => refBounds = Bounds(Number(135, 10), Number(175, 10))
            /\ rangeStr = Str(<<"<"," ","2","0","0">>) => refBounds = Bounds(Number(0, 1), Number(200, 1))
            /\ rangeStr = Str(<<">"," ","5","0">>) => refBounds = Bounds(Number(50, 1), NullNum)
            /\ rangeStr = Str(<<"a","b","n","o","r","m","a","l">>) => refBounds = Bounds(NullNum, NullNum)

(***************************************************************************)
(* C13: trend eligibility                                                  *)
(***************************************************************************)
\* a record with a test name, a value and a report date
Qualifying(item) ==
    /\ item.test_name \notin {Absent, ""}
    /\ item.value.k \notin {"null", "undefined"}
    /\ ~ (item.value.k = "string" /\ item.value.s = <<>>)
    /\ item.report_date.k \notin {"null", "undefined"}
    /\ ~ (item.report_date.k = "string" /\ item.report_date.s = <<>>)

QualifyingCount(data, name) ==
    Len(SelectSeq(data, LAMBDA item : Qualifying(item) /\ item.test_name = name))

Loaded == ~ loading /\ metrics # <<>>

\* C13: a test is in the selectable trend list if and only if it has at
\* least 2 qualifying points (records with a test name, a value and a
\* report date); it is listed once, and the list is ordered by descending
\* point count.
C13_TrendEligibility ==
    Loaded =>
        /\ \A n \in TrendNames :
              (n \in SeqRange(availableTests)) <=> (QualifyingCount(metrics, n) >= 2)
        /\ \A i, j \in 1..Len(availableTests) :
              i < j => /\ availableTests[i] # availableTests[j]
                       /\ QualifyingCount(metrics, availableTests[i])
                             >= QualifyingCount(metrics, availableTests[j])

(***************************************************************************)
(* C14, C15: alerts                                                        *)
(***************************************************************************)
\* the number a value string of the alert histories denotes
ValueNumber(v) ==
    CASE v = Str(<<"2","2","0">>) -> 220
      [] v = Str(<<"3","0">>) -> 30
      [] v = Str(<<"1","0","0">>) -> 100
      [] v = Str(<<"-","5">>) -> 0 - 5

\* the ranges of the alert histories with two finite bounds
ClosedRanges == {Str(<<"0","-","2","0","0">>), Str(<<"5","0","-","1","5","0">>)}
RangeMin(r) == IF r = Str(<<"0","-","2","0","0">>) THEN 0 ELSE 50
RangeMax(r) == IF r = Str(<<"0","-","2","0","0">>) THEN 200 ELSE 150

\* the ranges without two finite bounds: "> 50" (no max) and an absent range
OpenRanges == AlertRanges \ ClosedRanges

DayOf(d) == IF d = Str(<<"2","0","2","1","-","0","3","-","0","5">>) THEN 1 ELSE 2

\* the records of test n no other record of n is later than
LatestRecords(n) ==
    {i \in 1..Len(store) :
        /\ store[i].test_name = n
        /\ \A j \in 1..Len(store) :
              store[j].test_name = n => DayOf(store[j].report_date) <= DayOf(store[i].report_date)}

AlertsFor(n) == SelectSeq(alerts, LAMBDA a : a.test_name = n)

\* d is x / y rounded to the nearest integer (y > 0)
IsRounded(d, x, y) == 2 * (d * y - x) <= y /\ 2 * (x - d * y) <= y

\* what the claim says of the record rec for the alerts as of its test
AlertAsClaimed(rec, as) ==
    LET v == ValueNumber(rec.value)
        lo == RangeMin(rec.reference_range)
        hi == RangeMax(rec.reference_range)
    IN  IF v < lo
        THEN /\ Len(as) = 1 /\ as[1].status = "low" /\ StatusBadge(as[1]) = "LOW"
             /\ IF lo # 0 THEN IsRounded(as[1].deviation, (lo - v) * 100, lo)
                ELSE ~ DeviationShown(as[1])
        ELSE IF v > hi
        THEN /\ Len(as) = 1 /\ as[1].status = "high" /\ StatusBadge(as[1]) = "HIGH"
             /\ IsRounded(as[1].deviation, (v - hi) * 100, hi)
        ELSE as = <<>>

DashboardLoaded == ~ dashLoading /\ ~ dashError

C16_NormalizeIdempotent ==
    normCount = 2 => normRec = normPrev

\* a record whose value was converted from mmol/L, normalized twice
C16_Witness ==
    /\ normCount = 2
    /\ normRec.canonical_test_name = "Total Cholesterol"
    /\ normRec.unit = "mg/dL" /\ normRec.value = Number(52 * 3867, 1000)
    /\ normRec.reference_range = Str(<<"<","2","0","0">>)

(***************************************************************************)
(* C17: auto-fill                                                          *)
(***************************************************************************)
\* the day a date string of the saved records denotes
SavedDay(d) ==
    CASE d = Str(<<"2","0","2","1","-","0","3","-","0","5">>) -> 1
      [] d = Str(<<"0","1","/","J","u","n","/","2","0","2","2">>) -> 2
      [] d = Str(<<"2","0","2","3","-","0","2","-","1","0">>) -> 3

\* the test a test name of the saved records denotes
SavedTest(n) == IF n = "Hb" THEN "Hb" ELSE "Vitamin D"

\* store[j] was stored before store[i], is of the same test, is dated
\* earlier and carries a range
IsBasis(j, i) ==
    /\ j < i
    /\ SavedTest(store[j].test_name) = SavedTest(store[i].test_name)
    /\ SavedDay(store[j].report_date) < SavedDay(store[i].report_date)
    /\ store[j].reference_range # Null

\* C17: the range of a stored record that arrived without one is either
\* still absent or the range of the most recent earlier-dated record of the
\* same canonical test that carries a range; so a record with no such
\* earlier record keeps its range absent.
C17_AutoFillFromHistoryOnly ==
    \A i \in 1..Len(store) :
        store[i].raw_range = Null =>
            \/ store[i].reference_range = Null
            \/ \E j \in 1..Len(store) :
                  /\ IsBasis(j, i)
                  /\ store[j].reference_range = store[i].reference_range
                  /\ \A k \in 1..Len(store) :
                        IsBasis(k, i) =>
                            SavedDay(store[k].report_date) <= SavedDay(store[j].report_date)

\* a record that came without a range is filled from an earlier one, and one
\* with only later-dated history is stored with its range absent
C17_Witness ==
    /\ \E i \in 1..Len(store) :
          store[i].raw_range = Null /\ store[i].reference_range # Null
    /\ \E i \in 1..Len(store) :
          /\ store[i].reference_range = Null
          /\ \E j \in 1..Len(store) :
                /\ j < i /\ store[j].reference_range # Null
                /\ SavedTest(store[j].test_name) = SavedTest(store[i].test_name)
                /\ SavedDay(store[j].report_date) >= SavedDay(store[i].report_date)

(***************************************************************************)
(* C18: pre-processing                                                     *)
(***************************************************************************)
\* a text of newline-terminated lines, each a one-line record object (plain
\* or written with \_ for every underscore) or a # comment
IsCleanableLines(t) ==
    /\ t.layout = "lines"
    /\ \A i \in 1..Len(t.frags) : t.frags[i] \in {"oA", "oC", "esc", "cmt"}

\* C18: on every ingestion path the text is pre-processed before any parse
\* attempt (every \_ becomes _, every line beginning with # is dropped): once
\* such a text is read to its end, every record written with escaped
\* underscores has been recovered and no comment line has contributed a
\* fragment, so the emitted objects are exactly the records of the text.
C18_PreprocessedBeforeParse ==
    (received /\ pc = "recordSuccess" /\ IsCleanableLines(text)) =>
        extracted = Truth(text)


(***************************************************************************)
(* C19. The chart points are in ascending order of their parsed report     *)
(* dates: of two points with parseable dates the earlier date comes        *)
(* first, and two points with equal dates, or with unparseable dates,      *)
(* stand in the order their records had in the input.                      *)
(***************************************************************************)
Parseable(pt) == pt.rawTime # InvalidTime

C19_ChartSortedByDate ==
    \A i, j \in 1..Len(chartData) :
        i < j =>
            /\ (Parseable(chartData[i]) /\ Parseable(chartData[j])) =>
                   chartData[i].rawTime <= chartData[j].rawTime
            /\ (chartData[i].rawTime = chartData[j].rawTime) =>
                   chartData[i].pos < chartData[j].pos

(***************************************************************************)
(* C20, as stated.  The direct parse of the original report date is tried  *)
(* first and the parse with every / replaced by a space only if it         *)
(* fails; when both fail the original string is the label and the point    *)
(* has no sortable time.                                                   *)
(***************************************************************************)
SourceDate(pt) == metrics[pt.pos].report_date.s

C20_DirectParseFirst ==
    \A i \in 1..Len(chartData) :
        LET pt == chartData[i]
            d == SourceDate(pt)
        IN  /\ pt.attempts[1] = "direct"
            /\ ("replaced" \in SeqRange(pt.attempts)) => getTime(d) = InvalidTime
            /\ (getTime(d) = InvalidTime /\ getTime(replaceSlashes(d)) = InvalidTime) =>
                   (pt.date = d /\ ~ Parseable(pt))

(***************************************************************************)
(* C20, amended.  In the trend series the parse of the report date with    *)
(* every / replaced by a space is tried first and the direct parse of the  *)
(* original string only if that fails; a successful parse gives the time   *)
(* and the formatted label, and when both fail the original string is the  *)
(* label and the point has no sortable time.  The dashboard tries the      *)
(* replaced form only: its label is the chart's when that parse succeeds   *)
(* and the original string otherwise.  Every record of the selected test   *)
(* with a value and a date yields a point, whatever its date string.       *)
(***************************************************************************)
ChartSources ==
    {k \in 1..Len(metrics) : /\ metrics[k].test_name = selectedTest
                             /\ Truthy(metrics[k].report_date) /\ Truthy(metrics[k].value)}

C20_ReplacedParseFirst ==
    /\ {chartData[i].pos : i \in 1..Len(chartData)} = ChartSources
    /\ Len(chartData) = Cardinality(ChartSources)
    /\ \A i \in 1..Len(chartData) :
           LET pt == chartData[i]
               d == SourceDate(pt)
               replaced == getTime(replaceSlashes(d))
               direct == getTime(d)
           IN  /\ pt.attempts[1] = "replaced"
               /\ ("direct" \in SeqRange(pt.attempts)) <=> (replaced = InvalidTime)
               /\ (replaced # InvalidTime) =>
                      (pt.rawTime = replaced /\ pt.date = toLocaleDateString(replaced))
               /\ (replaced = InvalidTime /\ direct # InvalidTime) =>
                      (pt.rawTime = direct /\ pt.date = toLocaleDateString(direct))
               /\ (replaced = InvalidTime /\ direct = InvalidTime) =>
                      (pt.date = d /\ ~ Parseable(pt))
               /\ formatDate(Str(d)) = IF replaced # InvalidTime THEN pt.date ELSE d

\* a chart with a point whose date only the direct parse reads and a point
\* whose date neither parse reads
C20_Witness ==
    /\ ~ loading
    /\ \E i \in 1..Len(chartData) :
           /\ chartData[i].attempts = <<"replaced", "direct">>
           /\ Parseable(chartData[i])
    /\ \E i \in 1..Len(chartData) :
           /\ chartData[i].attempts = <<"replaced", "direct">>
           /\ ~ Parseable(chartData[i])
           /\ chartData[i].date = SourceDate(chartData[i])


(***************************************************************************)
(* C21. Every alert is listed in exactly one category: the first category  *)
(* of the table with a keyword that contains the test name or is contained *)
(* in it (letter case ignored), Other when there is none; the category     *)
(* counts add up to the number of alerts, and an alert whose reading is    *)
(* stale is listed like any other.                                         *)
(***************************************************************************)
KeywordHits(testName) ==
    {k \in 1..Len(METRIC_CATEGORIES) :
        /\ METRIC_CATEGORIES[k].name # "Other"
        /\ \E i \in 1..Len(METRIC_CATEGORIES[k].tests) :
              LET kw == toLowerCase(METRIC_CATEGORIES[k].tests[i])
                  nm == toLowerCase(NameChars(testName))
              IN  includesString(kw, nm) \/ includesString(nm, kw)}

ClaimedTable ==
    [testName \in TestNames |->
        IF KeywordHits(testName) = {} THEN "Other"
        ELSE METRIC_CATEGORIES[CHOOSE k \in KeywordHits(testName) :
                                   \A h \in KeywordHits(testName) : k <= h].name]

ClaimedCategory(testName) == ClaimedTable[testName]

RECURSIVE CountListed(_, _)
CountListed(groups, order) ==
    IF order = <<>> THEN 0 ELSE Len(groups[Head(order)]) + CountListed(groups, Tail(order))

DashboardShown == ~ dashLoading /\ ~ dashError

C21_OneCategoryPerAlert ==
    DashboardShown =>
        LET groups == groupAlertsByCategory(alerts)
            order == categoryOrder(alerts)
        IN  /\ \A i, j \in 1..Len(order) : order[i] = order[j] => i = j
            /\ CountListed(groups, order) = Len(alerts)
            /\ \A i \in 1..Len(alerts) :
                  LET c == ClaimedCategory(alerts[i].test_name)
                  IN  /\ c \in SeqRange(order)
                      /\ alerts[i] \in SeqRange(groups[c])
                      /\ \A o \in SeqRange(order) \ {c} : alerts[i] \notin SeqRange(groups[o])

\* two alerts are listed, one under Other and one, of a stale reading, under
\* the category whose keyword HbA1c contains its name
C21_Witness ==
    /\ DashboardShown
    /\ categoryOrder(alerts) = <<"Blood Sugar", "Other">>
    /\ \E i \in 1..Len(alerts) :
          /\ alerts[i].test_name = "Hb"
          /\ getReadingAge(alerts[i].report_date).isStale

(***************************************************************************)
(* C22. Within every category the alerts are listed with deviations that   *)
(* never increase, an unavailable deviation counting as 0.                 *)
(***************************************************************************)
C22_DescendingDeviation ==
    DashboardShown =>
        \A c \in DOMAIN groupAlertsByCategory(alerts) :
            LET listed == groupAlertsByCategory(alerts)[c]
            IN  \A i, j \in 1..Len(listed) : i < j => listed[i].deviation >= listed[j].deviation

\* a category received an alert without a deviation before one with a deviation
C22_Witness ==
    /\ DashboardShown
    /\ Len(alerts) = 2
    /\ getCategoryForTest(alerts[1].test_name) = getCategoryForTest(alerts[2].test_name)
    /\ alerts[1].deviation = 0 /\ alerts[2].deviation > 0
    /\ groupAlertsByCategory(alerts)[getCategoryForTest(alerts[1].test_name)]
          = <<alerts[2], alerts[1]>>

(***************************************************************************)
(* C23, as stated.  A reading is flagged stale exactly when a year has     *)
(* passed since its report date, very stale exactly when two years have    *)
(* passed; very stale implies stale, and a reading without a date, with a  *)
(* text that is no date, or with a date in the future is flagged neither.  *)
(***************************************************************************)
ReadingDay(al) ==
    IF Truthy(al.report_date) THEN getTime(replaceSlashes(al.report_date.s)) ELSE InvalidTime

\* the day is n years or more after the day t: days are written
\* year * 10000 + month * 100 + day
YearsPassed(t, n) == t # InvalidTime /\ now - t >= n * 10000

C23_StaleAfterYears ==
    \A i \in 1..Len(alerts) :
        LET age == getReadingAge(alerts[i].report_date)
            t == ReadingDay(alerts[i])
        IN  /\ age.isStale <=> YearsPassed(t, 1)
            /\ age.isVeryStale <=> YearsPassed(t, 2)
            /\ age.isVeryStale => age.isStale
            /\ (t = InvalidTime \/ t > now) => (~ age.isStale /\ ~ age.isVeryStale)

(***************************************************************************)
(* C23, amended.  A reading is flagged stale exactly when 365 days or more *)
(* have passed from its report date, parsed with every / replaced by a     *)
(* space, to the current time, and very stale exactly when 730 days or     *)
(* more have passed; very stale implies stale, and a reading without a     *)
(* date, with a date that parse does not read, or with a date in the       *)
(* future is flagged neither.                                              *)
(***************************************************************************)
DaysPassed(t, n) == t # InvalidTime /\ EpochDay(now) - EpochDay(t) >= n

C23_StaleAfterDays ==
    \A i \in 1..Len(alerts) :
        LET age == getReadingAge(alerts[i].report_date)
            t == ReadingDay(alerts[i])
        IN  /\ age.isStale <=> DaysPassed(t, 365)
            /\ age.isVeryStale <=> DaysPassed(t, 730)
            /\ age.isVeryStale => age.isStale
            /\ (t = InvalidTime \/ t > now) => (~ age.isStale /\ ~ age.isVeryStale)

\* a reading of 1 Mar 2023 shown on 29 Feb 2024, the 365th day after it and
\* the day before a year has passed, next to a reading without a date
C23_Witness ==
    /\ DashboardShown
    /\ now = 20240229
    /\ \E i \in 1..Len(alerts) :
          /\ ReadingDay(alerts[i]) = 20230301
          /\ getReadingAge(alerts[i].report_date) = Age(TRUE, FALSE)
    /\ \E i \in 1..Len(alerts) :
          /\ alerts[i].report_date = Null
          /\ getReadingAge(alerts[i].report_date) = Age(FALSE, FALSE)


(***************************************************************************)
(* C28. Every document whose processing has ended has exactly one entry    *)
(* in the ledger the backend keeps, a Success or a Failed one, whatever    *)
(* request failed while it was processed.                                  *)
(***************************************************************************)
Processed(f) ==
    /\ f \in 1..Len(fileList)
    /\ \/ f < idx
       \/ f = idx /\ pc \in {"finished", "rejected"}

EntriesOf(f) == SelectSeq(recorded, LAMBDA e : e.file = f)

C28_OneLedgerEntryPerDocument ==
    \A f \in 1..MaxFiles : Processed(f) => Len(EntriesOf(f)) = 1


(***************************************************************************)
(* C26. The status shown for a file of a batch only advances, from         *)
(* pending to processing to complete or error: no file is shown past       *)
(* pending before its own processing has started, and a file shown         *)
(* complete or error keeps that status for the rest of the batch, also     *)
(* when two files of the list have the same name.                          *)
(***************************************************************************)
StatusRank(st) ==
    CASE st = "pending" -> 0
      [] st = "processing" -> 1
      [] st \in {"complete", "error"} -> 2

StatusStep(i) ==
    /\ fileStatuses'[i].status # "pending" => i <= idx'
    /\ (fileList' = fileList /\ i <= Len(fileStatuses)) =>
          /\ StatusRank(fileStatuses'[i].status) >= StatusRank(fileStatuses[i].status)
          /\ StatusRank(fileStatuses[i].status) = 2 =>
                fileStatuses'[i].status = fileStatuses[i].status

C26_StatusOnlyAdvances ==
    [][\A i \in 1..Len(fileStatuses') : StatusStep(i)]_vars


(***************************************************************************)
(* C25. Every batch completes, whatever request fails: once handleUpload   *)
(* has set isLoading it is eventually false again, with every file of the  *)
(* batch shown complete or error and the view on File History.             *)
(***************************************************************************)
BatchCompleted ==
    /\ ~ isLoading
    /\ view = "history"
    /\ \A i \in 1..Len(fileStatuses) : fileStatuses[i].status \in {"complete", "error"}

C25_BatchCompletes == isLoading ~> BatchCompleted

(***************************************************************************)
(* C27: brace-matched streaming scan, start.sh lines 124-169.              *)
(***************************************************************************)
\* the scan of a whole text handed over in one chunk
WholeScan(t) == BraceScan(t, 1, 0, -1, <<>>)

\* C27: whatever the reads were, the fragments emitted so far are those the
\* scan of the consumed text in one chunk emits, in the same order, and the
\* buffer holds what that scan leaves over: a fragment split by a read
\* boundary waits in the buffer, an emitted one has left it.
C27_ChunkingDoesNotMatter ==
    pc = "read"
        => /\ extracted = WholeScan(Consumed).items
           /\ buffer = WholeScan(Consumed).buffer

\* a first object was emitted and has left the buffer; the nested object
\* after it is cut by a read boundary inside its inner object and waits
C27_Witness ==
    /\ pc = "read"
    /\ text = [layout |-> "none", frags |-> <<"oB", "nst">>]
    /\ rest = <<"}", "}">>
    /\ buffer = <<"{", "A", ",", "k", "{", "F">>
    /\ extracted = <<Body["B"]>>

(***************************************************************************)
(* C24, C29: the upload component and concurrent batches.                  *)
(***************************************************************************)
Extracting == {r \in 1..Len(runs) : runs[r].pc = "extracting"}

\* C24: whatever the upload events were, at most one document's extraction
\* is in flight at any time.
C24_OneExtractionInFlight == Cardinality(Extracting) <= 1

\* C29: every list FileUpload passed to onUpload is non-empty and holds
\* only files whose name ends with .pdf, upper or lower case.
C29_OnlyPdfsNeverEmpty ==
    \A u \in 1..Len(uploads) :
        /\ uploads[u] # <<>>
        /\ \A i \in 1..Len(uploads[u]) : IsPdfName(uploads[u][i])

(***************************************************************************)
(* C30: the trend view's selector and chart.                               *)
(***************************************************************************)
IsEligible(t) == \E i \in 1..Len(availableTests) : availableTests[i] = t

\* C30: once the trend view has loaded, the selected test is empty or one of
\* the eligible tests, and the chart of a selected test has exactly as many
\* points as the selector shows next to its name, which is at least 2.
C30_ChartMatchesSelector ==
    ~ loading
        => /\ selectedTest = "" \/ IsEligible(selectedTest)
           /\ selectedTest # ""
                => /\ selectedTest \in DOMAIN testCounts
                   /\ testCounts[selectedTest] >= 2
                   /\ Len(chartData) = testCounts[selectedTest]

\* two tests are eligible, TSH with three readings before Hb with two, and
\* the user has selected Hb: the chart shows its two points
C30_Witness ==
    /\ ~ loading
    /\ availableTests = <<"TSH", "Hb">>
    /\ selectedTest = "Hb"
    /\ Len(metrics) = 5
    /\ testCounts["TSH"] = 3
    /\ Len(chartData) = 2

====
